---- MODULE Spec2Model ----
(***************************************************************************)
(* GHG calculator: factor registry, unit converter, GWP tables, the six    *)
(* scope calculators and the orchestrator (ghg_calculator/engine,          *)
(* ghg_calculator/factors, ghg_calculator/models, ghg_calculator/units).   *)
(*                                                                         *)
(* Representation.                                                         *)
(*  - A Python str is a sequence of one-character strings, so lower(),     *)
(*    split(), `in` (substring) and concatenation are computed, not        *)
(*    assumed.  None for an optional str is the one-element sequence None. *)
(*  - A Python float is an exact rational <<n, d>> with d > 0 in lowest    *)
(*    terms; None for an optional float is NoneNum = <<0, 0>>.             *)
(*  - An Enum member is the TLA+ string of its value (or of its name for   *)
(*    the int enum Scope3Category); None for an optional enum is NoneE.    *)
(*  - A call's outcome is a record [kind, msg, results]: kind "ok" with    *)
(*    the returned list, or the raised exception's class with a tag for    *)
(*    its message and an empty list.                                       *)
(***************************************************************************)
EXTENDS Integers, Sequences, FiniteSets, TLC

VARIABLES
    _versions,      \* FactorRegistry._versions: list of FactorVersion
    _factors,       \* FactorRegistry._factors: list of EmissionFactor
    _by_id,         \* FactorRegistry._by_id: the dict id -> factor, as a function
    gwp_assessment, \* GHGCalculator.gwp_assessment, fixed at construction
    pc,             \* position of the caller: "idle", inside calculate_inventory
                    \* ("loop"), holding a call's result ("returned"), or
                    \* holding an InventoryResult of its own ("inventory")
    call,           \* the last completed API call: [op, activity, args, outcome, returned]
    activities,     \* calculate_inventory: its `activities` argument
    idx,            \* calculate_inventory: 1-based position of the for loop
    inventory,      \* calculate_inventory: the local InventoryResult
    folded,         \* history: results handed to inventory.add_result, in call order
    calculated      \* history: activities handed to calculate_single by the loop

vars == <<_versions, _factors, _by_id, gwp_assessment, pc, call, activities, idx, inventory,
          folded, calculated>>

registry == <<_versions, _factors, _by_id>>

----------------------------------------------------------------------------
(* Optional values *)

None == <<"<None>">>
NoneNum == <<0, 0>>
NoneE == "None"

\* Python truthiness of an optional str: neither None nor "".
Truthy(s) == s # None /\ s # <<>>

\* Python `a or b` on optional strs.
Or(a, b) == IF Truthy(a) THEN a ELSE b

----------------------------------------------------------------------------
(* String literals of the program and of the modelled factor data *)

\* Every str literal the modelled code or data uses, spelled out: L.kWh is "kWh".
L ==
    [ kWh |-> <<"k","W","h">>,
      MWh |-> <<"M","W","h">>,
      kwh |-> <<"k","w","h">>,
      kilowatt_hour |-> <<"k","i","l","o","w","a","t","t","_","h","o","u","r">>,
      kg |-> <<"k","g">>,
      metric_ton |-> <<"m","e","t","r","i","c","_","t","o","n">>,
      tonne |-> <<"t","o","n","n","e">>,
      therm |-> <<"t","h","e","r","m">>,
      MMBtu |-> <<"M","M","B","t","u">>,
      gallon |-> <<"g","a","l","l","o","n">>,
      km |-> <<"k","m">>,
      m |-> <<"m">>,
      tonne_km |-> <<"t","o","n","n","e","_","k","m">>,
      passenger_km |-> <<"p","a","s","s","e","n","g","e","r","_","k","m">>,
      USD |-> <<"U","S","D">>,
      electricity |-> <<"e","l","e","c","t","r","i","c","i","t","y">>,
      stationary_combustion |-> <<"s","t","a","t","i","o","n","a","r","y","_","c","o","m","b","u","s","t","i","o","n">>,
      mobile_combustion |-> <<"m","o","b","i","l","e","_","c","o","m","b","u","s","t","i","o","n">>,
      fugitive_emissions |-> <<"f","u","g","i","t","i","v","e","_","e","m","i","s","s","i","o","n","s">>,
      process_emissions |-> <<"p","r","o","c","e","s","s","_","e","m","i","s","s","i","o","n","s">>,
      spend_based |-> <<"s","p","e","n","d","_","b","a","s","e","d">>,
      waste |-> <<"w","a","s","t","e">>,
      transport |-> <<"t","r","a","n","s","p","o","r","t">>,
      business_travel |-> <<"b","u","s","i","n","e","s","s","_","t","r","a","v","e","l">>,
      purchased_goods |-> <<"p","u","r","c","h","a","s","e","d","_","g","o","o","d","s">>,
      capital_goods |-> <<"c","a","p","i","t","a","l","_","g","o","o","d","s">>,
      fuel_energy |-> <<"f","u","e","l","_","e","n","e","r","g","y">>,
      commuting |-> <<"c","o","m","m","u","t","i","n","g">>,
      leased_assets |-> <<"l","e","a","s","e","d","_","a","s","s","e","t","s">>,
      processing |-> <<"p","r","o","c","e","s","s","i","n","g">>,
      product_use |-> <<"p","r","o","d","u","c","t","_","u","s","e">>,
      end_of_life |-> <<"e","n","d","_","o","f","_","l","i","f","e">>,
      franchises |-> <<"f","r","a","n","c","h","i","s","e","s">>,
      investments |-> <<"i","n","v","e","s","t","m","e","n","t","s">>,
      US |-> <<"U","S">>,
      CAMX |-> <<"C","A","M","X">>,
      DE |-> <<"D","E">>,
      natural_gas |-> <<"n","a","t","u","r","a","l","_","g","a","s">>,
      gasoline |-> <<"g","a","s","o","l","i","n","e">>,
      diesel |-> <<"d","i","e","s","e","l">>,
      co2 |-> <<"c","o","2">>,
      ch4 |-> <<"c","h","4">>,
      n2o |-> <<"n","2","o">>,
      hfc |-> <<"h","f","c">>,
      sf6 |-> <<"s","f","6">>,
      co2e |-> <<"c","o","2","e">>,
      r410a |-> <<"r","-","4","1","0","a">>,
      R410A |-> <<"R","-","4","1","0","A">>,
      hfc134a |-> <<"h","f","c","-","1","3","4","a">>,
      r22 |-> <<"r","-","2","2">>,
      average |-> <<"a","v","e","r","a","g","e">>,
      mixed |-> <<"m","i","x","e","d">>,
      landfill |-> <<"l","a","n","d","f","i","l","l">>,
      air |-> <<"a","i","r">>,
      truck |-> <<"t","r","u","c","k">>,
      car |-> <<"c","a","r">>,
      naics11 |-> <<"1","1">>,
      naics22 |-> <<"2","2">> ]

----------------------------------------------------------------------------
(* str methods *)

UpperCase == <<"A","B","C","D","E","F","G","H","I","J","K","L","M",
               "N","O","P","Q","R","S","T","U","V","W","X","Y","Z">>
LowerCase == <<"a","b","c","d","e","f","g","h","i","j","k","l","m",
               "n","o","p","q","r","s","t","u","v","w","x","y","z">>

LowerChar(c) ==
    IF \E i \in 1..26 : UpperCase[i] = c
    THEN LowerCase[CHOOSE i \in 1..26 : UpperCase[i] = c]
    ELSE c

\* str.lower()
Lower(s) == [i \in 1..Len(s) |-> LowerChar(s[i])]

\* `q in t` for strs: q occurs as a contiguous substring of t.
IsSubstr(q, t) ==
    \E i \in 0..(Len(t) - Len(q)) : SubSeq(t, i + 1, i + Len(q)) = q

\* `x in xs` for a list.
InSeq(x, xs) == \E i \in 1..Len(xs) : xs[i] = x

RECURSIVE SplitFrom(_, _, _)
\* str.split(): the maximal runs of non-space characters, left to right.
SplitFrom(s, i, word) ==
    IF i > Len(s)
    THEN IF word = <<>> THEN <<>> ELSE <<word>>
    ELSE IF s[i] = " "
         THEN (IF word = <<>> THEN <<>> ELSE <<word>>) \o SplitFrom(s, i + 1, <<>>)
         ELSE SplitFrom(s, i + 1, Append(word, s[i]))

Split(s) == SplitFrom(s, 1, <<>>)

RECURSIVE Join(_, _)
\* sep.join(xs)
Join(sep, xs) ==
    IF xs = <<>> THEN <<>>
    ELSE IF Len(xs) = 1 THEN xs[1]
    ELSE xs[1] \o sep \o Join(sep, Tail(xs))

\* f"{x or ''}" / str(x) of an optional str inside an f-string: None or ''.
OrEmpty(s) == IF Truthy(s) THEN s ELSE <<>>

----------------------------------------------------------------------------
(* float arithmetic, as exact rationals *)

RECURSIVE GCD(_, _)
GCD(a, b) == IF b = 0 THEN a ELSE GCD(b, a % b)

Abs(n) == IF n < 0 THEN -n ELSE n

\* <<n, d>> in lowest terms with d > 0.
Norm(n, d) ==
    LET g == GCD(Abs(n), Abs(d))
        s == IF d < 0 THEN -1 ELSE 1
    IN  <<(s * n) \div g, (s * d) \div g>>

R(n) == <<n, 1>>
\* a * b, cancelling across before multiplying.
RMul(a, b) ==
    LET g1 == GCD(Abs(a[1]), b[2])
        g2 == GCD(Abs(b[1]), a[2])
    IN  Norm((a[1] \div g1) * (b[1] \div g2), (a[2] \div g2) * (b[2] \div g1))

\* a / b for b # 0.
RDiv(a, b) == RMul(a, Norm(b[2], b[1]))

\* a + b over the least common denominator.
RAdd(a, b) ==
    LET g == GCD(a[2], b[2])
    IN  Norm(a[1] * (b[2] \div g) + b[1] * (a[2] \div g), (a[2] \div g) * b[2])
RPos(a) == a[1] > 0
RTruthy(a) == a # NoneNum /\ a[1] # 0

RECURSIVE RSum(_)
\* sum(xs) over a list of floats (0 for the empty list).
RSum(xs) == IF xs = <<>> THEN R(0) ELSE RAdd(xs[1], RSum(Tail(xs)))

----------------------------------------------------------------------------
(* units/converter.py: the pint unit registry with the custom definitions *)

\* The units the registry knows (a part of pint's table plus the ureg.define
\* lines), each with its dimension and its size in the dimension's base unit:
\* energy in BTU, mass in g, length in m, volume in gallon.  pint matches
\* unit names case-sensitively.
KnownUnits ==
    { L.kWh, L.MWh, L.kilowatt_hour, L.therm, L.MMBtu,
      L.kg, L.metric_ton, L.tonne, L.m, L.km, L.gallon }

UnitDim(u) ==
    CASE u \in {L.kWh, L.MWh, L.kilowatt_hour, L.therm, L.MMBtu} -> "energy"
      [] u \in {L.kg, L.metric_ton, L.tonne} -> "mass"
      [] u \in {L.m, L.km} -> "length"
      [] u \in {L.gallon} -> "volume"

UnitSize(u) ==
    CASE u \in {L.kWh, L.kilowatt_hour} -> <<341214, 100>>
      [] u = L.MWh -> <<3412140, 1>>
      [] u = L.therm -> <<100000, 1>>
      [] u = L.MMBtu -> <<1000000, 1>>
      [] u = L.kg -> <<1000, 1>>
      [] u \in {L.metric_ton, L.tonne} -> <<1000000, 1>>
      [] u = L.m -> <<1, 1>>
      [] u = L.km -> <<1000, 1>>
      [] u = L.gallon -> <<1, 1>>

\* UnitConverter.convert(value, from_unit, to_unit): the converted magnitude,
\* or the pint exception it raises.
convert(value, from_unit, to_unit) ==
    IF from_unit \notin KnownUnits \/ to_unit \notin KnownUnits
    THEN [ok |-> FALSE, error |-> "UndefinedUnitError", value |-> NoneNum]
    ELSE IF UnitDim(from_unit) # UnitDim(to_unit)
    THEN [ok |-> FALSE, error |-> "DimensionalityError", value |-> NoneNum]
    ELSE [ok |-> TRUE, error |-> "",
          value |-> RMul(value, RDiv(UnitSize(from_unit), UnitSize(to_unit)))]

----------------------------------------------------------------------------
(* factors/gwp.py *)

Assessments == {"ar5", "ar6"}

\* The keys of AR5_GWP / AR6_GWP that the model carries (both tables have the
\* same key set).
GWPKeys == {L.co2, L.ch4, L.n2o, L.sf6, L.hfc134a, L.r410a}

AR5_GWP(key) ==
    CASE key = L.co2 -> R(1)
      [] key = L.ch4 -> R(28)
      [] key = L.n2o -> R(265)
      [] key = L.sf6 -> R(23500)
      [] key = L.hfc134a -> R(1300)
      [] key = L.r410a -> R(2088)

AR6_GWP(key) ==
    CASE key = L.co2 -> R(1)
      [] key = L.ch4 -> <<279, 10>>
      [] key = L.n2o -> R(273)
      [] key = L.sf6 -> R(25200)
      [] key = L.hfc134a -> R(1530)
      [] key = L.r410a -> R(2256)

_GWP_TABLES(assessment, key) ==
    IF assessment = "ar5" THEN AR5_GWP(key) ELSE AR6_GWP(key)

\* get_gwp with the table looked up under the identifier as given.
get_gwp_as_given(gas, assessment) ==
    IF Lower(gas) = L.co2e
    THEN [ok |-> TRUE, error |-> "", value |-> R(1)]
    ELSE IF gas \notin GWPKeys
    THEN [ok |-> FALSE, error |-> "KeyError", value |-> NoneNum]
    ELSE [ok |-> TRUE, error |-> "", value |-> _GWP_TABLES(assessment, gas)]

\* get_gwp(gas, assessment).  A GasType member is passed as its value, which
\* is already lower case, so key = gas.lower() covers both branches.
get_gwp(gas, assessment) ==
    LET key == Lower(gas)
    IN  IF key = L.co2e
        THEN [ok |-> TRUE, error |-> "", value |-> R(1)]
        ELSE IF key \notin GWPKeys
        THEN [ok |-> FALSE, error |-> "KeyError", value |-> NoneNum]
        ELSE [ok |-> TRUE, error |-> "", value |-> _GWP_TABLES(assessment, key)]

\* to_co2e(mass_kg, gas, assessment), for a gas get_gwp knows.
to_co2e(mass_kg, gas, assessment) ==
    RMul(mass_kg, get_gwp(gas, assessment).value)

----------------------------------------------------------------------------
(* models/factors.py: EmissionFactor, FactorVersion; models/enums.py *)

\* The strs of the modelled factor data: ids, names (n_), tags (t_), regions.
D ==
    [ eg1 |-> <<"e","g","1">>,
      eg2 |-> <<"e","g","2">>,
      em1 |-> <<"e","m","1">>,
      df1 |-> <<"d","f","1">>,
      df2 |-> <<"d","f","2">>,
      df3 |-> <<"d","f","3">>,
      df4 |-> <<"d","f","4">>,
      ep1 |-> <<"e","p","1">>,
      ep2 |-> <<"e","p","2">>,
      ep3 |-> <<"e","p","3">>,
      ep4 |-> <<"e","p","4">>,
      cu1 |-> <<"c","u","1">>,
      cu2 |-> <<"c","u","2">>,
      cu3 |-> <<"c","u","3">>,
      cu4 |-> <<"c","u","4">>,
      us1 |-> <<"u","s","1">>,
      us2 |-> <<"u","s","2">>,
      ex1 |-> <<"e","x","1">>,
      ex2 |-> <<"e","x","2">>,
      n_CAMX_grid |-> <<"C","A","M","X"," ","g","r","i","d">>,
      n_US_grid |-> <<"U","S"," ","g","r","i","d">>,
      n_DE_grid |-> <<"D","E"," ","g","r","i","d">>,
      n_Natural_Gas |-> <<"N","a","t","u","r","a","l"," ","G","a","s">>,
      n_Diesel |-> <<"D","i","e","s","e","l">>,
      n_Gasoline_Car |-> <<"G","a","s","o","l","i","n","e"," ","C","a","r">>,
      n_R22 |-> <<"R","-","2","2">>,
      n_SF6 |-> <<"S","F","6">>,
      n_Flight |-> <<"F","l","i","g","h","t">>,
      n_HGV_average |-> <<"H","G","V"," ","a","v","e","r","a","g","e">>,
      n_Mixed_landfill |-> <<"M","i","x","e","d"," ","l","a","n","d","f","i","l","l">>,
      n_Cement |-> <<"C","e","m","e","n","t">>,
      n_Goods |-> <<"G","o","o","d","s">>,
      n_Farms |-> <<"F","a","r","m","s">>,
      n_Utilities |-> <<"U","t","i","l","i","t","i","e","s">>,
      n_Crops_EU |-> <<"C","r","o","p","s"," ","E","U">>,
      t_grid |-> <<"g","r","i","d">>,
      t_air |-> <<"a","i","r">>,
      t_road |-> <<"r","o","a","d">>,
      t_freight |-> <<"f","r","e","i","g","h","t">>,
      t_fugitive |-> <<"f","u","g","i","t","i","v","e">>,
      t_refrigerant |-> <<"r","e","f","r","i","g","e","r","a","n","t">>,
      t_naics_11 |-> <<"n","a","i","c","s","_","1","1">>,
      t_mrio |-> <<"m","r","i","o">>,
      flights |-> <<"f","l","i","g","h","t","s">>,
      hgv |-> <<"h","g","v">>,
      UK |-> <<"U","K">>,
      EU |-> <<"E","U">>,
      EUR |-> <<"E","U","R">> ]

Scopes == {"scope_1", "scope_2", "scope_3"}

FactorSources == {"epa_hub", "egrid", "defra", "useeio", "ember", "exiobase", "custom"}

\* EmissionFactor(...): the fields the registry and the calculators read.  The
\* defaults of the class are co2/ch4/n2o_factor 0.0, co2e_factor None,
\* description "", scope None.
EmissionFactor(id, name, source, category, subcategory, fuel_type, region, activity_unit, co2, ch4, n2o, co2e, tags) ==
    [ id |-> id, name |-> name, source |-> source, scope |-> NoneE,
      co2_factor |-> co2, ch4_factor |-> ch4, n2o_factor |-> n2o,
      co2e_factor |-> co2e, activity_unit |-> activity_unit,
      category |-> category, subcategory |-> subcategory,
      fuel_type |-> fuel_type, region |-> region,
      description |-> <<>>, tags |-> tags ]

\* "No factor": the None that get / find_factor return, as a record of the
\* same shape so that it compares with factors.
NoFactor ==
    EmissionFactor(None, <<>>, NoneE, <<>>, <<>>, None, None, <<>>,
                   R(0), R(0), R(0), NoneNum, <<>>)

\* FactorVersion(source, factors): one loaded file.
FactorVersion(source, factors) == [source |-> source, factors |-> factors]

----------------------------------------------------------------------------
(* Modelled factor data: seven small versions shaped like the files that   *)
(* scripts/build_factors.py writes.                                        *)

\* search's default for limit.
DefaultLimit == 50

V_egrid ==
    FactorVersion("egrid", <<
        EmissionFactor(D.eg1, D.n_CAMX_grid, "egrid", L.electricity, <<>>, None,
                       L.CAMX, L.kWh, <<1, 5>>, R(0), R(0), NoneNum, <<D.t_grid>>),
        EmissionFactor(D.eg2, D.n_US_grid, "egrid", L.electricity, <<>>, None,
                       L.US, L.kWh, <<2, 5>>, <<1, 100>>, R(0), NoneNum, <<D.t_grid>>) >>)

\* A later eGRID file: the CAMX factor under the same id, with a new value.
V_egrid_next ==
    FactorVersion("egrid", <<
        EmissionFactor(D.eg1, D.n_CAMX_grid, "egrid", L.electricity, <<>>, None,
                       L.CAMX, L.kWh, <<1, 4>>, R(0), R(0), NoneNum, <<D.t_grid>>) >>)

\* The country code of the i-th further country of the Ember file: JA .. KY.
CountryCode(i) == <<UpperCase[10 + ((i - 1) \div 25)], UpperCase[1 + ((i - 1) % 25)]>>

\* The Ember file has a factor per country, more of them than search's default
\* limit: Germany's, then as many further countries' as that limit.
V_ember ==
    FactorVersion("ember",
        << EmissionFactor(D.em1, D.n_DE_grid, "ember", L.electricity, <<>>, None,
                          L.DE, L.kWh, <<3, 10>>, <<1, 100>>, <<1, 100>>, NoneNum,
                          <<D.t_grid>>) >>
        \o [i \in 1..DefaultLimit |->
               EmissionFactor(<<"e", "m">> \o Lower(CountryCode(i)),
                              CountryCode(i) \o <<" ">> \o D.t_grid, "ember",
                              L.electricity, <<>>, None, CountryCode(i), L.kWh,
                              <<2, 5>>, R(0), R(0), NoneNum, <<D.t_grid>>)])

V_defra ==
    FactorVersion("defra", <<
        EmissionFactor(D.df1, D.n_DE_grid, "defra", L.electricity, <<>>, None,
                       L.DE, L.kWh, <<1, 2>>, R(0), R(0), NoneNum, <<D.t_grid>>),
        EmissionFactor(D.df2, D.n_Flight, "defra", L.business_travel, D.flights, None,
                       D.UK, L.passenger_km, <<1, 5>>, R(0), R(0), <<1, 4>>,
                       <<D.t_air, L.business_travel>>),
        EmissionFactor(D.df3, D.n_HGV_average, "defra", L.transport, D.hgv, None,
                       D.UK, L.tonne_km, <<1, 10>>, R(0), R(0), <<1, 8>>,
                       <<D.t_road, D.t_freight>>),
        EmissionFactor(D.df4, D.n_Mixed_landfill, "defra", L.waste, L.landfill,
                       L.mixed \o <<"_">> \o L.landfill,
                       D.UK, L.tonne, R(0), R(0), R(0), R(450), <<L.waste, L.landfill>>) >>)

V_epa_hub ==
    FactorVersion("epa_hub", <<
        EmissionFactor(D.ep1, D.n_Natural_Gas, "epa_hub", L.stationary_combustion, <<>>,
                       L.natural_gas, L.US, L.MMBtu, R(53), <<1, 100>>, <<1, 100>>,
                       NoneNum, <<>>),
        EmissionFactor(D.ep2, D.n_Diesel, "epa_hub", L.stationary_combustion, <<>>,
                       L.diesel, L.US, L.gallon, R(10), <<1, 50>>, R(0), NoneNum, <<>>),
        EmissionFactor(D.ep3, D.n_Gasoline_Car, "epa_hub", L.mobile_combustion, L.car,
                       L.gasoline, L.US, L.gallon, R(9), <<1, 50>>, <<1, 100>>,
                       NoneNum, <<D.t_road>>),
        EmissionFactor(D.ep4, D.n_R22, "epa_hub", L.fugitive_emissions, D.t_refrigerant,
                       None, L.US, L.kg, R(0), R(0), R(0), R(1810),
                       <<D.t_fugitive, D.t_refrigerant>>) >>)

V_custom ==
    FactorVersion("custom", <<
        EmissionFactor(D.cu1, D.n_Cement, "custom", L.process_emissions, <<>>, None,
                       None, L.tonne, R(500), R(0), R(0), R(520), <<>>),
        EmissionFactor(D.cu2, D.n_Goods, "custom", L.purchased_goods, <<>>, None,
                       None, L.kg, R(2), <<1, 100>>, R(0), NoneNum, <<>>),
        EmissionFactor(D.cu3, D.n_R22, "custom", L.fugitive_emissions, <<>>, None,
                       None, L.kg, R(5), R(0), R(0), NoneNum, <<>>),
        EmissionFactor(D.cu4, D.n_SF6, "custom", L.fugitive_emissions, <<>>, None,
                       None, L.kg, R(0), R(0), R(0), R(23500), <<>>) >>)

\* The USEEIO file keys its factors by NAICS code in fuel_type; the second
\* factor is one that carries a co2_factor and no co2e_factor.
V_useeio ==
    FactorVersion("useeio", <<
        EmissionFactor(D.us1, D.n_Farms, "useeio", L.spend_based, <<>>, L.naics11,
                       L.US, L.USD, R(0), R(0), R(0), <<1, 2>>,
                       <<L.spend_based, D.t_naics_11>>),
        EmissionFactor(D.us2, D.n_Utilities, "useeio", L.spend_based, <<>>, L.naics22,
                       L.US, L.USD, <<3, 4>>, R(0), R(0), NoneNum,
                       <<L.spend_based>>) >>)

V_exiobase ==
    FactorVersion("exiobase", <<
        EmissionFactor(D.ex1, D.n_Crops_EU, "exiobase", L.spend_based, <<>>, L.naics11,
                       D.EU, D.EUR, R(0), R(0), R(0), <<3, 10>>,
                       <<L.spend_based, D.t_mrio>>),
        EmissionFactor(D.ex2, D.n_Utilities, "exiobase", L.spend_based, <<>>, L.naics22,
                       D.EU, D.EUR, R(0), R(0), R(0), <<1, 2>>,
                       <<L.spend_based, D.t_mrio>>) >>)

\* The versions add_version may be handed.
VersionPool ==
    {V_egrid, V_ember, V_defra, V_epa_hub, V_custom, V_useeio, V_exiobase}

----------------------------------------------------------------------------
(* factors/loader.py *)

\* A source document of the data directory as load_factor_file meets it: text
\* that is not JSON ("not_json"), JSON whose top level is an array ("array"),
\* an object without its "version" key ("missing_key"), an object whose source
\* is no FactorSource ("unknown_source"), an object whose "factors" is null
\* ("factors_null"), or a well-formed object ("object") holding a version.
Document(shape, version) == [shape |-> shape, version |-> version]

NoVersion == FactorVersion("None", <<>>)

\* load_factor_file(path) on the document at that path: the FactorVersion, or
\* the exception the first failing statement raises.  json.load raises
\* JSONDecodeError; raw["factors"] on a list and iterating None raise
\* TypeError; a missing key raises KeyError; FactorSource(...) of an unknown
\* value raises ValueError.
load_factor_file(doc) ==
    CASE doc.shape = "not_json" ->
            [ok |-> FALSE, error |-> "JSONDecodeError", version |-> NoVersion]
      [] doc.shape = "array" ->
            [ok |-> FALSE, error |-> "TypeError", version |-> NoVersion]
      [] doc.shape = "factors_null" ->
            [ok |-> FALSE, error |-> "TypeError", version |-> NoVersion]
      [] doc.shape = "missing_key" ->
            [ok |-> FALSE, error |-> "KeyError", version |-> NoVersion]
      [] doc.shape = "unknown_source" ->
            [ok |-> FALSE, error |-> "ValueError", version |-> NoVersion]
      [] OTHER -> [ok |-> TRUE, error |-> "", version |-> doc.version]

\* sorted(paths): the paths in ascending order.  A path is modelled by its rank
\* among all paths.
sorted_paths(paths) ==
    [k \in 1..Cardinality(paths) |->
        CHOOSE p \in paths : Cardinality({q \in paths : q < p}) = k - 1]

\* discover_factor_files() on a data directory, a function from the paths of
\* its *.json files to their documents.
discover_factor_files(dir) == sorted_paths(DOMAIN dir)

\* The exceptions load_all_factors catches.
CaughtOnLoad == {"JSONDecodeError", "KeyError", "ValueError"}

RECURSIVE LoadFrom(_, _, _)
\* The for loop of load_all_factors over the remaining paths, versions being
\* the list built so far: a caught exception skips the document, any other
\* leaves the function.
LoadFrom(dir, paths, versions) ==
    IF paths = <<>> THEN [kind |-> "ok", msg |-> "", results |-> versions]
    ELSE IF load_factor_file(dir[paths[1]]).ok
    THEN LoadFrom(dir, Tail(paths),
                  Append(versions, load_factor_file(dir[paths[1]]).version))
    ELSE IF load_factor_file(dir[paths[1]]).error \in CaughtOnLoad
    THEN LoadFrom(dir, Tail(paths), versions)
    ELSE [kind |-> load_factor_file(dir[paths[1]]).error, msg |-> "load",
          results |-> <<>>]

load_all_factors(dir) == LoadFrom(dir, discover_factor_files(dir), <<>>)

----------------------------------------------------------------------------
(* factors/registry.py: FactorRegistry *)

\* A faulty index: `self._by_id.setdefault(factor.id, factor)`, the first factor
\* of an id kept.  Property C28 tells it from IndexAll.
IndexAll_keep_first(d, fs) ==
    [k \in (DOMAIN d) \cup {fs[i].id : i \in 1..Len(fs)} |->
        IF k \in DOMAIN d THEN d[k]
        ELSE fs[CHOOSE i \in 1..Len(fs) :
                   fs[i].id = k /\ \A j \in 1..(i - 1) : fs[j].id # k]]

\* The dict d after the loop body `self._by_id[factor.id] = factor` has run for
\* each factor of fs in turn: every id of fs maps to the last factor of fs that
\* has it, every other key is kept.
IndexAll(d, fs) ==
    [k \in (DOMAIN d) \cup {fs[i].id : i \in 1..Len(fs)} |->
        IF \E i \in 1..Len(fs) : fs[i].id = k
        THEN fs[CHOOSE i \in 1..Len(fs) :
                   fs[i].id = k /\ \A j \in (i + 1)..Len(fs) : fs[j].id # k]
        ELSE d[k]]

RECURSIVE FactorsOf(_)
\* self._factors after add_version has run for each of the versions in turn.
FactorsOf(versions) ==
    IF versions = <<>> THEN <<>>
    ELSE versions[1].factors \o FactorsOf(Tail(versions))

RECURSIVE IndexVersions(_, _)
\* self._by_id after add_version has run for each of the versions in turn.
IndexVersions(d, versions) ==
    IF versions = <<>> THEN d
    ELSE IndexVersions(IndexAll(d, versions[1].factors), Tail(versions))

\* FactorRegistry.factor_count
factor_count == Len(_factors)

\* FactorRegistry.get(factor_id) on the dict d.
get(d, factor_id) == IF factor_id \in DOMAIN d THEN d[factor_id] ELSE NoFactor

\* An assignment `x = value` followed by the statements Body that read x.
Bind(value, Body(_)) == Body(value)

\* `if cond: results = [f for f in results if Test(f)]`
FilterIf(cond, results, Test(_)) ==
    IF cond THEN SelectSeq(results, Test) ELSE results

\* The score search gives factor f for the lower-cased query.
Score(f, query_lower) ==
    LET searchable == f.name \o <<" ">> \o f.description \o <<" ">> \o f.category
                      \o <<" ">> \o f.subcategory \o <<" ">> \o OrEmpty(f.fuel_type)
                      \o <<" ">> \o Join(<<" ">>, f.tags)
        searchable_lower == Lower(searchable)
        words == Split(query_lower)
        hits == {i \in 1..Len(words) : IsSubstr(words[i], searchable_lower)}
    IN  (IF IsSubstr(query_lower, searchable_lower) THEN 10 ELSE 0)
      + (IF IsSubstr(query_lower, Lower(f.name)) THEN 20 ELSE 0)
      + (IF query_lower = Lower(OrEmpty(f.fuel_type)) THEN 15 ELSE 0)
      + 5 * Cardinality(hits)

RECURSIVE InsertBeforeEqual(_, _)
\* A faulty insertion: x put in front of the pairs of its own score, which
\* makes the sort unstable.  Property C15 tells it from InsertDesc.
InsertBeforeEqual(sorted, x) ==
    IF sorted = <<>> THEN <<x>>
    ELSE IF sorted[1][1] > x[1]
         THEN <<sorted[1]>> \o InsertBeforeEqual(Tail(sorted), x)
         ELSE <<x>> \o sorted

RECURSIVE InsertDesc(_, _)
\* Insert the pair x = <<score, factor>> behind every pair whose score is >= its own.
InsertDesc(sorted, x) ==
    IF sorted = <<>> THEN <<x>>
    ELSE IF sorted[1][1] >= x[1]
         THEN <<sorted[1]>> \o InsertDesc(Tail(sorted), x)
         ELSE <<x>> \o sorted

RECURSIVE SortDesc(_, _)
\* scored.sort(key=lambda x: x[0], reverse=True): stable, descending by score.
SortDesc(done, rest) ==
    IF rest = <<>> THEN done ELSE SortDesc(InsertDesc(done, rest[1]), Tail(rest))

\* A faulty truncation: one element more than the limit.  Property C17 tells it
\* from Truncate.
TruncateOneMore(results, limit) ==
    SubSeq(results, 1, IF limit + 1 < Len(results) THEN limit + 1 ELSE Len(results))

\* results[:limit] for limit >= 0.
Truncate(results, limit) ==
    SubSeq(results, 1, IF limit < Len(results) THEN limit ELSE Len(results))

\* The `if query:` block of search: the factors of results that score above 0,
\* best score first.
Ranked(results, query_lower) ==
    Bind(SortDesc(<<>>, SelectSeq([i \in 1..Len(results) |->
                                      <<Score(results[i], query_lower), results[i]>>],
                                  LAMBDA x : x[1] > 0)),
         LAMBDA scored : [i \in 1..Len(scored) |-> scored[i][2]])

\* A faulty tag test: one of the tags on the factor is enough.  Property C16
\* tells it from tags_issubset.
tags_intersect(tags, factor_tags) ==
    \E i \in 1..Len(tags) :
        \E j \in 1..Len(factor_tags) : Lower(factor_tags[j]) = Lower(tags[i])

\* `tag_set.issubset(set(t.lower() for t in f.tags))`, tag_set the lower-cased tags.
tags_issubset(tags, factor_tags) ==
    \A i \in 1..Len(tags) :
        \E j \in 1..Len(factor_tags) : Lower(factor_tags[j]) = Lower(tags[i])

\* FactorRegistry.search on the factor list fs.  An absent str argument is None,
\* an absent enum argument NoneE, an absent tags argument <<>>.
search(fs, query, source, category, fuel_type, region, scope, activity_unit, tags, limit) ==
    LET r1 == FilterIf(source # NoneE, fs, LAMBDA f : f.source = source)
        r2 == FilterIf(category # None, r1, LAMBDA f : f.category = category)
        r3 == FilterIf(fuel_type # None, r2,
                       LAMBDA f : Truthy(f.fuel_type)
                                  /\ Lower(f.fuel_type) = Lower(fuel_type))
        r4 == FilterIf(region # None, r3,
                       LAMBDA f : Truthy(f.region) /\ Lower(f.region) = Lower(region))
        r5 == FilterIf(scope # NoneE, r4, LAMBDA f : f.scope = scope)
        r6 == FilterIf(activity_unit # None, r5,
                       LAMBDA f : Lower(f.activity_unit) = Lower(activity_unit))
        r7 == FilterIf(tags # <<>>, r6, LAMBDA f : tags_issubset(tags, f.tags))
    IN  Truncate(IF Truthy(query) THEN Ranked(r7, Lower(query)) ELSE r7, limit)

\* A faulty find_factor: of all the matches, the last one.  Property C13 tells
\* it from find_factor.
find_factor_last_match(fs, category, fuel_type, region, activity_unit, source) ==
    Bind(search(fs, <<>>, source, category, fuel_type, region, NoneE, activity_unit, <<>>,
                Len(fs)),
         LAMBDA results : IF results # <<>> THEN results[Len(results)] ELSE NoFactor)

\* FactorRegistry.find_factor: search with limit=1 and no query; the first hit or None.
find_factor(fs, category, fuel_type, region, activity_unit, source) ==
    Bind(search(fs, <<>>, source, category, fuel_type, region, NoneE, activity_unit, <<>>, 1),
         LAMBDA results : IF results # <<>> THEN results[1] ELSE NoFactor)

----------------------------------------------------------------------------
(* models/activity.py, models/results.py: records *)

\* ActivityRecord with every optional field at its default (None).
ActivityRecord(scope, quantity, unit) ==
    [ scope |-> scope, scope1_category |-> NoneE, scope2_method |-> NoneE,
      scope3_category |-> NoneE, quantity |-> quantity, unit |-> unit,
      fuel_type |-> None, custom_fuel |-> None,
      country |-> None, region |-> None, grid_subregion |-> None,
      custom_factor |-> NoneNum, factor_source |-> NoneE,
      spend_amount |-> NoneNum, naics_code |-> None,
      distance |-> NoneNum, distance_unit |-> None,
      weight |-> NoneNum, weight_unit |-> None,
      vehicle_type |-> None, transport_mode |-> None,
      waste_type |-> None, disposal_method |-> None,
      refrigerant_type |-> None ]

\* GasBreakdown(gas, mass_kg, co2e_kg, gwp_used, gwp_assessment)
GasBreakdown(gas, mass_kg, co2e_kg, gwp_used, assessment) ==
    [ gas |-> gas, mass_kg |-> mass_kg, co2e_kg |-> co2e_kg,
      gwp_used |-> gwp_used, gwp_assessment |-> assessment ]

\* EmissionResult(...) without activity_id / activity_name / calculated_at;
\* notes is a tag for the one note the calculators attach ("" for none).
EmissionResult(scope, s1cat, s2method, s3cat, total, breakdown, factor, quantity, unit, assessment, notes) ==
    [ scope |-> scope, scope1_category |-> s1cat, scope2_method |-> s2method,
      scope3_category |-> s3cat, total_co2e_kg |-> total,
      gas_breakdown |-> breakdown,
      factor_id |-> factor.id,
      factor_source |-> factor.source,
      activity_quantity |-> quantity, activity_unit |-> unit,
      gwp_assessment |-> assessment, notes |-> notes ]

\* A call that returned the list `results`.
Ok(results) == [kind |-> "ok", msg |-> "", results |-> results]

\* A call that raised an exception of class `kind`; msg tags its message.
Raise(kind, msg) == [kind |-> kind, msg |-> msg, results |-> <<>>]

----------------------------------------------------------------------------
(* engine/base.py: BaseScopeCalculator *)

\* A faulty _build_gas_breakdown: without the `if mass > 0` test, an entry for
\* every gas.  Property C27 tells it from _build_gas_breakdown.
_build_gas_breakdown_every_gas(co2_kg, ch4_kg, n2o_kg, assessment) ==
    LET Entry(gas, mass) ==
            <<GasBreakdown(gas, mass, to_co2e(mass, gas, assessment),
                           get_gwp(gas, assessment).value, assessment)>>
    IN  Entry(L.co2, co2_kg) \o Entry(L.ch4, ch4_kg) \o Entry(L.n2o, n2o_kg)

\* _build_gas_breakdown(co2_kg, ch4_kg, n2o_kg)
_build_gas_breakdown(co2_kg, ch4_kg, n2o_kg, assessment) ==
    LET Entry(gas, mass) ==
            IF RPos(mass)
            THEN <<GasBreakdown(gas, mass, to_co2e(mass, gas, assessment),
                                get_gwp(gas, assessment).value, assessment)>>
            ELSE <<>>
    IN  Entry(L.co2, co2_kg) \o Entry(L.ch4, ch4_kg) \o Entry(L.n2o, n2o_kg)

\* _total_co2e(breakdown)
_total_co2e(breakdown) ==
    RSum([i \in 1..Len(breakdown) |-> breakdown[i].co2e_kg])

\* The three per-gas masses of `quantity` under `factor`, broken down.
GasesOf(quantity, factor, assessment) ==
    _build_gas_breakdown(RMul(quantity, factor.co2_factor),
                         RMul(quantity, factor.ch4_factor),
                         RMul(quantity, factor.n2o_factor), assessment)

\* The three per-gas masses of `quantity` under `factor`, broken down, in an
\* EmissionResult whose total is the breakdown's sum.
GasResult(scope, s1cat, s2method, s3cat, quantity, factor, a, assessment, notes) ==
    Bind(GasesOf(quantity, factor, assessment),
         LAMBDA breakdown :
            EmissionResult(scope, s1cat, s2method, s3cat, _total_co2e(breakdown),
                           breakdown, factor, a.quantity, a.unit, assessment, notes))

\* `quantity = activity.quantity; if activity.unit.lower() != to_unit.lower():
\* quantity = converter.convert(activity.quantity, activity.unit, to_unit)`
ConvertIfNeeded(a, to_unit) ==
    IF Lower(a.unit) # Lower(to_unit)
    THEN convert(a.quantity, a.unit, to_unit)
    ELSE [ok |-> TRUE, error |-> "", value |-> a.quantity]

----------------------------------------------------------------------------
(* engine/scope1/stationary.py *)

\* fuel_type = activity.fuel_type.value if activity.fuel_type else activity.custom_fuel
FuelKey(a) == IF a.fuel_type # None THEN a.fuel_type ELSE a.custom_fuel

StationaryCombustionCalculator_calculate(fs, assessment, a) ==
    IF a.custom_factor # NoneNum
    THEN Ok(<<EmissionResult("scope_1", "stationary_combustion", NoneE, NoneE,
                             RMul(a.quantity, a.custom_factor), <<>>, NoFactor,
                             a.quantity, a.unit, assessment, "custom")>>)
    ELSE
    Bind(IF Truthy(FuelKey(a))
         THEN find_factor(fs, L.stationary_combustion, FuelKey(a), None,
                          a.unit, a.factor_source)
         ELSE NoFactor,
         LAMBDA factor :
            IF factor = NoFactor THEN Raise("ValueError", "no_factor")
            ELSE Bind(ConvertIfNeeded(a, factor.activity_unit),
                      LAMBDA conv :
                         IF ~conv.ok THEN Raise("ValueError", "cannot_convert")
                         ELSE Ok(<<GasResult("scope_1", "stationary_combustion", NoneE,
                                             NoneE, conv.value, factor, a, assessment,
                                             "")>>)))

----------------------------------------------------------------------------
(* engine/scope1/mobile.py *)

MobileCombustionCalculator_calculate(fs, assessment, a) ==
    IF a.custom_factor # NoneNum
    THEN Ok(<<EmissionResult("scope_1", "mobile_combustion", NoneE, NoneE,
                             RMul(a.quantity, a.custom_factor), <<>>, NoFactor,
                             a.quantity, a.unit, assessment, "custom")>>)
    ELSE
    Bind(IF Truthy(a.vehicle_type)
         THEN find_factor(fs, L.mobile_combustion, FuelKey(a), None,
                          a.unit, a.factor_source)
         ELSE NoFactor,
         LAMBDA first :
    Bind(IF first = NoFactor /\ Truthy(FuelKey(a))
         THEN find_factor(fs, L.mobile_combustion, FuelKey(a), None,
                          a.unit, a.factor_source)
         ELSE first,
         LAMBDA factor :
            IF factor = NoFactor THEN Raise("ValueError", "no_factor")
            ELSE Bind(ConvertIfNeeded(a, factor.activity_unit),
                      LAMBDA conv :
                         IF ~conv.ok THEN Raise("ValueError", "cannot_convert")
                         ELSE Ok(<<GasResult("scope_1", "mobile_combustion", NoneE,
                                             NoneE, conv.value, factor, a, assessment,
                                             "")>>))))

----------------------------------------------------------------------------
(* engine/scope1/fugitive.py *)

\* The branch `if refrigerant is None`: registry lookup by category, unit and
\* source.
FugitiveByFactor(fs, assessment, a) ==
    Bind(find_factor(fs, L.fugitive_emissions, None, None, a.unit, a.factor_source),
         LAMBDA factor :
            IF factor # NoFactor /\ factor.co2e_factor # NoneNum
            THEN Bind(ConvertIfNeeded(a, L.kg),
                      LAMBDA conv :
                         IF ~conv.ok THEN Raise("ValueError", "cannot_convert")
                         ELSE Ok(<<EmissionResult("scope_1", "fugitive_emissions",
                                                  NoneE, NoneE,
                                                  RMul(conv.value, factor.co2e_factor),
                                                  <<>>, factor, a.quantity, a.unit,
                                                  assessment, "")>>))
            ELSE Raise("ValueError", "no_refrigerant_no_factor"))

\* The refrigerant's GWP from get_gwp alone, the registry never asked.
RefrigerantGWP_table_only(fs, assessment, refrigerant) ==
    Bind(get_gwp(Lower(refrigerant), assessment),
         LAMBDA looked :
            IF looked.ok THEN looked
            ELSE [ok |-> FALSE, error |-> "ValueError", value |-> NoneNum])

\* The refrigerant's GWP: get_gwp, and on KeyError the co2e_factor of the first
\* hit of a free-text search; not ok when neither gives one.
RefrigerantGWP(fs, assessment, refrigerant) ==
    Bind(get_gwp(Lower(refrigerant), assessment),
         LAMBDA looked :
            IF looked.ok THEN looked
            ELSE Bind(search(fs, refrigerant, NoneE, L.fugitive_emissions, None, None,
                             NoneE, None, <<>>, 1),
                      LAMBDA results :
                         IF results # <<>> /\ results[1].co2e_factor # NoneNum
                         THEN [ok |-> TRUE, error |-> "",
                               value |-> results[1].co2e_factor]
                         ELSE [ok |-> FALSE, error |-> "ValueError",
                               value |-> NoneNum]))

\* The branch with a refrigerant: quantity in kg times the refrigerant's GWP.
FugitiveByGWP(fs, assessment, a, conv, gwp) ==
    IF ~conv.ok THEN Raise("ValueError", "cannot_convert")
    ELSE IF ~gwp.ok THEN Raise("ValueError", "unknown_refrigerant")
    ELSE Bind(RMul(conv.value, gwp.value),
              LAMBDA total_co2e :
                 Ok(<<EmissionResult("scope_1", "fugitive_emissions", NoneE, NoneE,
                                     total_co2e,
                                     <<GasBreakdown(L.hfc, conv.value, total_co2e,
                                                    gwp.value, assessment)>>,
                                     NoFactor, a.quantity, a.unit, assessment,
                                     "refrigerant")>>))

FugitiveEmissionsCalculator_calculate(fs, assessment, a) ==
    IF a.custom_factor # NoneNum
    THEN Ok(<<EmissionResult("scope_1", "fugitive_emissions", NoneE, NoneE,
                             RMul(a.quantity, a.custom_factor), <<>>, NoFactor,
                             a.quantity, a.unit, assessment, "custom")>>)
    ELSE IF a.refrigerant_type = None
    THEN FugitiveByFactor(fs, assessment, a)
    ELSE FugitiveByGWP(fs, assessment, a, ConvertIfNeeded(a, L.kg),
                       RefrigerantGWP(fs, assessment, a.refrigerant_type))

----------------------------------------------------------------------------
(* engine/scope1/process.py *)

ProcessEmissionsCalculator_calculate(fs, assessment, a) ==
    IF a.custom_factor # NoneNum
    THEN Ok(<<EmissionResult("scope_1", "process_emissions", NoneE, NoneE,
                             RMul(a.quantity, a.custom_factor), <<>>, NoFactor,
                             a.quantity, a.unit, assessment, "custom")>>)
    ELSE
    Bind(find_factor(fs, L.process_emissions, None, None, a.unit, a.factor_source),
         LAMBDA factor :
            IF factor = NoFactor THEN Raise("ValueError", "process_requires_factor")
            ELSE Bind(GasResult("scope_1", "process_emissions", NoneE, NoneE,
                                a.quantity, factor, a, assessment, ""),
                      LAMBDA result :
                         Ok(<<IF factor.co2e_factor # NoneNum
                              THEN [result EXCEPT !.total_co2e_kg =
                                        RMul(a.quantity, factor.co2e_factor)]
                              ELSE result>>)))

----------------------------------------------------------------------------
(* engine/scope2/electricity.py *)

\* `x if x is not None else y` for factors.
OrElse(x, y) == IF x # NoFactor THEN x ELSE y

\* _find_location_factor with the first two lookups made whether or not the
\* activity names a grid_subregion or a country.
_find_location_factor_unguarded(fs, a) ==
    OrElse(find_factor(fs, L.electricity, None, a.grid_subregion, L.kWh, "egrid"),
    OrElse(find_factor(fs, L.electricity, None, a.country, L.kWh, "ember"),
           find_factor(fs, L.electricity, None, L.US, L.kWh, NoneE)))

\* _find_location_factor(activity)
_find_location_factor(fs, a) ==
    OrElse(IF Truthy(a.grid_subregion)
           THEN find_factor(fs, L.electricity, None, a.grid_subregion, L.kWh, "egrid")
           ELSE NoFactor,
    OrElse(IF Truthy(a.country)
           THEN find_factor(fs, L.electricity, None, a.country, L.kWh, "ember")
           ELSE NoFactor,
           find_factor(fs, L.electricity, None, L.US, L.kWh, NoneE)))

\* _find_market_factor without its last line: the declared source's factor or
\* nothing.
_find_market_factor_declared_only(fs, a) ==
    IF a.factor_source # NoneE
    THEN find_factor(fs, L.electricity, None, Or(a.grid_subregion, a.country),
                     L.kWh, a.factor_source)
    ELSE NoFactor

\* _find_market_factor(activity)
_find_market_factor(fs, a) ==
    OrElse(IF a.factor_source # NoneE
           THEN find_factor(fs, L.electricity, None, Or(a.grid_subregion, a.country),
                            L.kWh, a.factor_source)
           ELSE NoFactor,
           _find_location_factor(fs, a))

\* The `if location_factor:` / `if market_factor:` block: the result appended
\* for a factor that was found, nothing for None.
ElectricityResult(factor, method, quantity_kwh, a, assessment, notes) ==
    IF factor # NoFactor
    THEN <<GasResult("scope_2", NoneE, method, NoneE, quantity_kwh, factor, a,
                     assessment, notes)>>
    ELSE <<>>

\* A faulty end of ElectricityCalculator.calculate: `return results` without the
\* `if not results` check.  Property C6 tells it from NonEmptyOrRaise.
ReturnUnchecked(results) == Ok(results)

\* `if not results: raise ValueError(...)`, `return results`
NonEmptyOrRaise(results) ==
    IF results = <<>> THEN Raise("ValueError", "no_factor") ELSE Ok(results)

ElectricityCalculator_calculate(fs, assessment, a) ==
    Bind(IF Lower(a.unit) \notin {L.kwh, L.kilowatt_hour}
         THEN convert(a.quantity, a.unit, L.kWh)
         ELSE [ok |-> TRUE, error |-> "", value |-> a.quantity],
         LAMBDA conv :
            IF ~conv.ok THEN Raise("ValueError", "cannot_convert")
            ELSE IF a.custom_factor # NoneNum
            THEN Ok(<<EmissionResult("scope_2", NoneE,
                                     IF a.scope2_method # NoneE THEN a.scope2_method
                                     ELSE "location_based",
                                     NoneE, RMul(conv.value, a.custom_factor), <<>>,
                                     NoFactor, a.quantity, a.unit, assessment,
                                     "custom")>>)
            ELSE NonEmptyOrRaise(
                    ElectricityResult(_find_location_factor(fs, a), "location_based",
                                      conv.value, a, assessment, "")
                    \o
                    ElectricityResult(_find_market_factor(fs, a), "market_based",
                                      conv.value, a, assessment, "market_proxy")))

----------------------------------------------------------------------------
(* engine/scope3/base.py *)

Scope3Categories ==
    { "PURCHASED_GOODS_SERVICES", "CAPITAL_GOODS", "FUEL_ENERGY_ACTIVITIES",
      "UPSTREAM_TRANSPORT", "WASTE", "BUSINESS_TRAVEL", "EMPLOYEE_COMMUTING",
      "UPSTREAM_LEASED_ASSETS", "DOWNSTREAM_TRANSPORT", "PROCESSING_SOLD_PRODUCTS",
      "USE_OF_SOLD_PRODUCTS", "END_OF_LIFE_SOLD_PRODUCTS", "DOWNSTREAM_LEASED_ASSETS",
      "FRANCHISES", "INVESTMENTS" }

\* _CATEGORY_MAP.get(category, default)
_CATEGORY_MAP(category, default) ==
    CASE category = "PURCHASED_GOODS_SERVICES" -> L.purchased_goods
      [] category = "CAPITAL_GOODS" -> L.capital_goods
      [] category = "FUEL_ENERGY_ACTIVITIES" -> L.fuel_energy
      [] category = "UPSTREAM_TRANSPORT" -> L.transport
      [] category = "WASTE" -> L.waste
      [] category = "BUSINESS_TRAVEL" -> L.business_travel
      [] category = "EMPLOYEE_COMMUTING" -> L.commuting
      [] category = "UPSTREAM_LEASED_ASSETS" -> L.leased_assets
      [] category = "DOWNSTREAM_TRANSPORT" -> L.transport
      [] category = "PROCESSING_SOLD_PRODUCTS" -> L.processing
      [] category = "USE_OF_SOLD_PRODUCTS" -> L.product_use
      [] category = "END_OF_LIFE_SOLD_PRODUCTS" -> L.end_of_life
      [] category = "DOWNSTREAM_LEASED_ASSETS" -> L.leased_assets
      [] category = "FRANCHISES" -> L.franchises
      [] category = "INVESTMENTS" -> L.investments
      [] OTHER -> default

\* The first hit of a search with limit=1, or None.
TopHit(results) == IF results # <<>> THEN results[1] ELSE NoFactor

\* co2e_factor if factor.co2e_factor is not None else co2_factor
Co2eOrCo2(factor) ==
    IF factor.co2e_factor # NoneNum THEN factor.co2e_factor ELSE factor.co2_factor

_calculate_custom(fs, assessment, a) ==
    Ok(<<EmissionResult("scope_3", NoneE, NoneE, a.scope3_category,
                        RMul(a.quantity, a.custom_factor), <<>>, NoFactor,
                        a.quantity, a.unit, assessment, "custom")>>)

\* The factor lookup of _calculate_spend_based without the free-text search of
\* USEEIO.
SpendFactor_exact_or_exiobase(fs, a) ==
    OrElse(IF Truthy(a.naics_code)
           THEN find_factor(fs, L.spend_based, a.naics_code, None, None, "useeio")
           ELSE NoFactor,
           TopHit(search(fs, OrEmpty(a.naics_code), "exiobase", None, None, None,
                         NoneE, None, <<>>, 1)))

\* A faulty lookup: the USEEIO free-text search is made without a NAICS code
\* too.  Property C29 tells it from SpendFactor.
SpendFactor_useeio_always(fs, a) ==
    OrElse(OrElse(IF Truthy(a.naics_code)
                  THEN find_factor(fs, L.spend_based, a.naics_code, None, None, "useeio")
                  ELSE NoFactor,
                  TopHit(search(fs, OrEmpty(a.naics_code), "useeio", None, None, None,
                                NoneE, None, <<>>, 1))),
           TopHit(search(fs, OrEmpty(a.naics_code), "exiobase", None, None, None,
                         NoneE, None, <<>>, 1)))

\* The factor lookup of _calculate_spend_based: USEEIO by NAICS code, USEEIO by
\* free text, then EXIOBASE by free text.
SpendFactor(fs, a) ==
    OrElse(IF Truthy(a.naics_code)
           THEN OrElse(find_factor(fs, L.spend_based, a.naics_code, None, None, "useeio"),
                       TopHit(search(fs, a.naics_code, "useeio", None, None, None,
                                     NoneE, None, <<>>, 1)))
           ELSE NoFactor,
           TopHit(search(fs, OrEmpty(a.naics_code), "exiobase", None, None, None,
                         NoneE, None, <<>>, 1)))

_calculate_spend_based(fs, assessment, a) ==
    Bind(SpendFactor(fs, a),
         LAMBDA factor :
            IF factor = NoFactor THEN Raise("ValueError", "no_spend_factor")
            ELSE Bind(IF RTruthy(a.spend_amount) THEN a.spend_amount ELSE a.quantity,
                      LAMBDA spend :
                         Ok(<<EmissionResult("scope_3", NoneE, NoneE, a.scope3_category,
                                             RMul(spend, Co2eOrCo2(factor)), <<>>,
                                             factor, spend, L.USD, assessment,
                                             "spend_based")>>)))

\* mode = activity.transport_mode or activity.vehicle_type or "average"
TransportMode(a) == Or(a.transport_mode, Or(a.vehicle_type, L.average))

\* The factor lookup of _calculate_distance_based: by category, mode and
\* distance unit, then by free text.
DistanceFactor(fs, a) ==
    Bind(_CATEGORY_MAP(a.scope3_category, L.transport),
         LAMBDA cat_name :
            OrElse(find_factor(fs, cat_name, TransportMode(a), None,
                               Or(a.distance_unit, L.km), NoneE),
                   TopHit(search(fs, cat_name \o <<" ">> \o TransportMode(a), NoneE,
                                 None, None, None, NoneE, None, <<>>, 1))))

\* `try: x = converter.convert(x, from_unit, to_unit)` / `except Exception: pass`:
\* the converted value, or x as it was when the conversion raises.
ConvertOrKeep(x, from_unit, to_unit) ==
    Bind(convert(x, from_unit, to_unit),
         LAMBDA conv : IF conv.ok THEN conv.value ELSE x)

\* The distance _calculate_distance_based multiplies, for the factor found.
Distance(a, factor) ==
    IF Truthy(a.distance_unit) /\ Lower(a.distance_unit) # Lower(factor.activity_unit)
    THEN ConvertOrKeep(a.distance, a.distance_unit, factor.activity_unit)
    ELSE a.distance

\* weight_tonnes of _calculate_distance_based.
WeightTonnes(a) ==
    IF Truthy(a.weight_unit) /\ Lower(a.weight_unit) # L.tonne
    THEN ConvertOrKeep(a.weight, a.weight_unit, L.metric_ton)
    ELSE a.weight

_calculate_distance_based(fs, assessment, a) ==
    Bind(DistanceFactor(fs, a),
         LAMBDA factor :
            IF factor = NoFactor THEN Raise("ValueError", "no_distance_factor")
            ELSE Bind(IF RTruthy(a.weight)
                         /\ IsSubstr(L.tonne_km, Lower(factor.activity_unit))
                      THEN RMul(Distance(a, factor), WeightTonnes(a))
                      ELSE Distance(a, factor),
                      LAMBDA quantity :
                         Ok(<<EmissionResult("scope_3", NoneE, NoneE, a.scope3_category,
                                             RMul(quantity, Co2eOrCo2(factor)), <<>>,
                                             factor, quantity, factor.activity_unit,
                                             assessment, "distance_based")>>)))

\* The factor lookup of _calculate_waste.
WasteFactor(fs, waste_type, disposal) ==
    OrElse(find_factor(fs, L.waste, waste_type \o <<"_">> \o disposal, None, None, NoneE),
           TopHit(search(fs, L.waste \o <<" ">> \o waste_type \o <<" ">> \o disposal,
                         NoneE, None, None, None, NoneE, None, <<>>, 1)))

_calculate_waste(fs, assessment, a) ==
    Bind(WasteFactor(fs, Or(a.waste_type, L.mixed), Or(a.disposal_method, L.landfill)),
         LAMBDA factor :
            IF factor = NoFactor THEN Raise("ValueError", "no_waste_factor")
            ELSE Ok(<<EmissionResult("scope_3", NoneE, NoneE, "WASTE",
                                     RMul(a.quantity, Co2eOrCo2(factor)), <<>>, factor,
                                     a.quantity, a.unit, assessment, "waste")>>))

\* The factor lookup of _calculate_activity_based.
ActivityFactor(fs, a, cat_name) ==
    OrElse(find_factor(fs, cat_name, None, None, a.unit, a.factor_source),
           TopHit(search(fs, cat_name, NoneE, None, None, None, NoneE, a.unit,
                         <<>>, 1)))

_calculate_activity_based(fs, assessment, a) ==
    Bind(ActivityFactor(fs, a, _CATEGORY_MAP(a.scope3_category, <<>>)),
         LAMBDA factor :
            IF factor = NoFactor THEN Raise("ValueError", "no_scope3_factor")
            ELSE Bind(GasResult("scope_3", NoneE, NoneE, a.scope3_category,
                                a.quantity, factor, a, assessment, ""),
                      LAMBDA result :
                         Ok(<<IF factor.co2e_factor # NoneNum
                              THEN [result EXCEPT !.total_co2e_kg =
                                        RMul(a.quantity, factor.co2e_factor)]
                              ELSE result>>)))

\* A faulty calculate: the scope3_category check made before the custom_factor
\* branch.  Property C23 tells it from Scope3Calculator_calculate.
Scope3Calculator_calculate_category_first(fs, assessment, a) ==
    IF a.scope3_category = NoneE
    THEN Raise("ValueError", "scope3_category_required")
    ELSE IF a.custom_factor # NoneNum THEN _calculate_custom(fs, assessment, a)
    ELSE IF a.spend_amount # NoneNum THEN _calculate_spend_based(fs, assessment, a)
    ELSE IF a.distance # NoneNum
            /\ a.scope3_category \in {"UPSTREAM_TRANSPORT", "DOWNSTREAM_TRANSPORT",
                                      "BUSINESS_TRAVEL", "EMPLOYEE_COMMUTING"}
    THEN _calculate_distance_based(fs, assessment, a)
    ELSE IF a.scope3_category = "WASTE" THEN _calculate_waste(fs, assessment, a)
    ELSE _calculate_activity_based(fs, assessment, a)

Scope3Calculator_calculate(fs, assessment, a) ==
    IF a.custom_factor # NoneNum THEN _calculate_custom(fs, assessment, a)
    ELSE IF a.scope3_category = NoneE
    THEN Raise("ValueError", "scope3_category_required")
    ELSE IF a.spend_amount # NoneNum THEN _calculate_spend_based(fs, assessment, a)
    ELSE IF a.distance # NoneNum
            /\ a.scope3_category \in {"UPSTREAM_TRANSPORT", "DOWNSTREAM_TRANSPORT",
                                      "BUSINESS_TRAVEL", "EMPLOYEE_COMMUTING"}
    THEN _calculate_distance_based(fs, assessment, a)
    ELSE IF a.scope3_category = "WASTE" THEN _calculate_waste(fs, assessment, a)
    ELSE _calculate_activity_based(fs, assessment, a)

----------------------------------------------------------------------------
(* engine/calculator.py: GHGCalculator *)

\* A faulty _route_scope1: without a category, a fuel is looked at before the
\* refrigerant.  Property C12 tells it from _route_scope1.
_route_scope1_fuel_first(fs, assessment, a) ==
    CASE a.scope1_category = "stationary_combustion" ->
            StationaryCombustionCalculator_calculate(fs, assessment, a)
      [] a.scope1_category = "mobile_combustion" ->
            MobileCombustionCalculator_calculate(fs, assessment, a)
      [] a.scope1_category = "fugitive_emissions" ->
            FugitiveEmissionsCalculator_calculate(fs, assessment, a)
      [] a.scope1_category = "process_emissions" ->
            ProcessEmissionsCalculator_calculate(fs, assessment, a)
      [] OTHER ->
            IF a.fuel_type # None \/ Truthy(a.custom_fuel)
            THEN StationaryCombustionCalculator_calculate(fs, assessment, a)
            ELSE IF Truthy(a.refrigerant_type)
            THEN FugitiveEmissionsCalculator_calculate(fs, assessment, a)
            ELSE Raise("ValueError", "cannot_determine_category")

_route_scope1(fs, assessment, a) ==
    CASE a.scope1_category = "stationary_combustion" ->
            StationaryCombustionCalculator_calculate(fs, assessment, a)
      [] a.scope1_category = "mobile_combustion" ->
            MobileCombustionCalculator_calculate(fs, assessment, a)
      [] a.scope1_category = "fugitive_emissions" ->
            FugitiveEmissionsCalculator_calculate(fs, assessment, a)
      [] a.scope1_category = "process_emissions" ->
            ProcessEmissionsCalculator_calculate(fs, assessment, a)
      [] OTHER ->
            IF Truthy(a.refrigerant_type)
            THEN FugitiveEmissionsCalculator_calculate(fs, assessment, a)
            ELSE IF a.fuel_type # None \/ Truthy(a.custom_fuel)
            THEN StationaryCombustionCalculator_calculate(fs, assessment, a)
            ELSE Raise("ValueError", "cannot_determine_category")

calculate_single(fs, assessment, a) ==
    CASE a.scope = "scope_1" -> _route_scope1(fs, assessment, a)
      [] a.scope = "scope_2" -> ElectricityCalculator_calculate(fs, assessment, a)
      [] a.scope = "scope_3" -> Scope3Calculator_calculate(fs, assessment, a)
      [] OTHER -> Raise("ValueError", "unknown_scope")

----------------------------------------------------------------------------
(* models/results.py: ScopeResult, InventoryResult *)

\* ScopeResult(scope=scope): total 0.0, no results.
ScopeResult(scope) == [scope |-> scope, total_co2e_kg |-> R(0), results |-> <<>>]

\* A faulty add_result: the result put in front of the bucket's list.
\* Property C10 tells it from ScopeResult_add_result.
ScopeResult_prepend_result(bucket, result) ==
    [bucket EXCEPT !.results = <<result>> \o @,
                   !.total_co2e_kg = RAdd(@, result.total_co2e_kg)]

\* A faulty add_result: `self.total_co2e_kg = result.total_co2e_kg`, the total
\* overwritten.  Property C30 tells it from ScopeResult_add_result.
ScopeResult_add_result_set_total(bucket, result) ==
    [bucket EXCEPT !.results = Append(@, result),
                   !.total_co2e_kg = result.total_co2e_kg]

\* ScopeResult.add_result(result)
ScopeResult_add_result(bucket, result) ==
    [bucket EXCEPT !.results = Append(@, result),
                   !.total_co2e_kg = RAdd(@, result.total_co2e_kg)]

\* InventoryResult(): the four default buckets.
InventoryResult ==
    [ scope1 |-> ScopeResult("scope_1"), scope2_location |-> ScopeResult("scope_2"),
      scope2_market |-> ScopeResult("scope_2"), scope3 |-> ScopeResult("scope_3") ]

\* A faulty add_result: a Scope-2 result goes to the location-based bucket only
\* when its method says so.  Property C11 tells it from add_result.
add_result_market_unless_location(inv, result) ==
    IF result.scope = "scope_1"
    THEN [inv EXCEPT !.scope1 = ScopeResult_add_result(@, result)]
    ELSE IF result.scope = "scope_2"
    THEN IF result.scope2_method = "location_based"
         THEN [inv EXCEPT !.scope2_location = ScopeResult_add_result(@, result)]
         ELSE [inv EXCEPT !.scope2_market = ScopeResult_add_result(@, result)]
    ELSE IF result.scope = "scope_3"
    THEN [inv EXCEPT !.scope3 = ScopeResult_add_result(@, result)]
    ELSE inv

\* InventoryResult.add_result(result)
add_result(inv, result) ==
    IF result.scope = "scope_1"
    THEN [inv EXCEPT !.scope1 = ScopeResult_add_result(@, result)]
    ELSE IF result.scope = "scope_2"
    THEN IF result.scope2_method = "market_based"
         THEN [inv EXCEPT !.scope2_market = ScopeResult_add_result(@, result)]
         ELSE [inv EXCEPT !.scope2_location = ScopeResult_add_result(@, result)]
    ELSE IF result.scope = "scope_3"
    THEN [inv EXCEPT !.scope3 = ScopeResult_add_result(@, result)]
    ELSE inv

\* A faulty total_co2e_kg: the market-based bucket counted into the headline
\* total as well.  Property C4 tells it from total_co2e_kg.
total_co2e_kg_with_market(inv) ==
    RAdd(RAdd(RAdd(inv.scope1.total_co2e_kg, inv.scope2_location.total_co2e_kg),
              inv.scope2_market.total_co2e_kg),
         inv.scope3.total_co2e_kg)

\* InventoryResult.total_co2e_kg (property)
total_co2e_kg(inv) ==
    RAdd(RAdd(inv.scope1.total_co2e_kg, inv.scope2_location.total_co2e_kg),
         inv.scope3.total_co2e_kg)

\* InventoryResult.all_results (property)
all_results(inv) ==
    inv.scope1.results \o inv.scope2_location.results
    \o inv.scope2_market.results \o inv.scope3.results

RECURSIVE AddResults(_, _)
\* `for result in results: inventory.add_result(result)`
AddResults(inv, results) ==
    IF results = <<>> THEN inv
    ELSE AddResults(add_result(inv, results[1]), Tail(results))

----------------------------------------------------------------------------
(* Inputs: the bounded sets the calls draw their arguments from *)

\* Most versions a registry is loaded with.
MaxVersions == 1

\* Longest activity list handed to calculate_inventory.
MaxActivities == 2

\* Most results a caller adds to an InventoryResult of its own.
MaxResults == 2

\* Most *.json files in the data directory.
MaxDocuments == 2

\* The documents a data directory may hold.
DocumentPool ==
    { Document("object", V_egrid), Document("object", V_egrid_next),
      Document("not_json", NoVersion), Document("array", NoVersion),
      Document("missing_key", NoVersion), Document("unknown_source", NoVersion),
      Document("factors_null", NoVersion) }

\* The data directories: up to MaxDocuments paths, a document at each.
Directories ==
    UNION { [paths -> DocumentPool] : paths \in SUBSET (1..MaxDocuments) }

Scope1Activities ==
    { [ActivityRecord("scope_1", R(2), unit) EXCEPT
            !.scope1_category = cat, !.fuel_type = fuel, !.custom_factor = cf] :
        unit \in {L.therm, L.gallon},
        cat \in {NoneE, "stationary_combustion"},
        fuel \in {None, L.natural_gas, L.diesel},
        cf \in {NoneNum, R(10)} }
    \cup
    { [ActivityRecord("scope_1", R(2), unit) EXCEPT
            !.scope1_category = "fugitive_emissions", !.refrigerant_type = refr] :
        unit \in {L.kg, L.tonne, L.gallon},
        refr \in {None, L.r410a, L.R410A, L.r22} }
    \cup
    { [ActivityRecord("scope_1", R(3), L.gallon) EXCEPT
            !.scope1_category = "mobile_combustion", !.fuel_type = fuel,
            !.custom_fuel = cfuel, !.vehicle_type = vehicle] :
        fuel \in {None, L.gasoline},
        cfuel \in {None, L.diesel},
        vehicle \in {None, L.car} }
    \cup
    { [ActivityRecord("scope_1", R(3), L.tonne) EXCEPT
            !.scope1_category = "process_emissions", !.factor_source = src] :
        src \in {NoneE, "custom"} }
    \cup
    { [ActivityRecord("scope_1", R(2), L.kg) EXCEPT
            !.scope1_category = cat, !.refrigerant_type = refr,
            !.fuel_type = fuel, !.custom_fuel = cfuel] :
        cat \in {NoneE, "stationary_combustion", "fugitive_emissions"},
        refr \in {None, L.r410a},
        fuel \in {None, L.diesel},
        cfuel \in {None, L.diesel} }

Scope2Activities ==
    { [ActivityRecord("scope_2", R(2), unit) EXCEPT
            !.grid_subregion = grid, !.country = country, !.factor_source = src] :
        unit \in {L.kWh, L.MWh, L.gallon},
        grid \in {None, L.CAMX},
        country \in {None, L.DE},
        src \in {NoneE, "defra"} }
    \cup
    { [ActivityRecord("scope_2", R(2), unit) EXCEPT
            !.custom_factor = <<1, 2>>, !.scope2_method = method] :
        unit \in {L.kWh, L.kwh, L.MWh, L.gallon},
        method \in {NoneE, "market_based", "location_based"} }

Scope3Activities ==
    { [ActivityRecord("scope_3", R(4), L.kg) EXCEPT
            !.scope3_category = cat, !.custom_factor = R(3)] :
        cat \in {NoneE, "WASTE"} }
    \cup
    { [ActivityRecord("scope_3", R(1), L.USD) EXCEPT
            !.scope3_category = cat, !.spend_amount = R(100), !.naics_code = naics] :
        cat \in {NoneE, "PURCHASED_GOODS_SERVICES"},
        naics \in {None, L.naics11, L.naics22, <<"1">>} }
    \cup
    { [ActivityRecord("scope_3", R(1), L.km) EXCEPT
            !.scope3_category = cat, !.distance = R(3), !.distance_unit = dunit,
            !.weight = w[1], !.weight_unit = w[2], !.transport_mode = mode] :
        cat \in {"BUSINESS_TRAVEL", "UPSTREAM_TRANSPORT"},
        dunit \in {None, L.km, L.gallon},
        w \in { <<NoneNum, None>>, <<R(2), L.tonne>>, <<R(2), L.gallon>> },
        mode \in {None, L.air} }
    \cup
    { [ActivityRecord("scope_3", R(2), unit) EXCEPT
            !.scope3_category = cat, !.waste_type = wt] :
        unit \in {L.kg, L.tonne},
        cat \in {"WASTE", "PURCHASED_GOODS_SERVICES"},
        wt \in {None, L.mixed} }

\* Scope-3 activities that carry the discriminators of several branches at once.
Scope3OverlapActivities ==
    { [ActivityRecord("scope_3", R(2), L.kg) EXCEPT
            !.scope3_category = cat, !.custom_factor = cf, !.spend_amount = spend,
            !.distance = dist] :
        cat \in {NoneE, "WASTE", "BUSINESS_TRAVEL", "PURCHASED_GOODS_SERVICES"},
        cf \in {NoneNum, R(3)},
        spend \in {NoneNum, R(100)},
        dist \in {NoneNum, R(3)} }

\* Activities of Scope 2 and 3 that carry the fields of another scope.
CrossScopeActivities ==
    { [ActivityRecord(scope, R(2), L.kWh) EXCEPT
            !.scope1_category = "stationary_combustion", !.fuel_type = L.diesel,
            !.refrigerant_type = L.r410a, !.scope3_category = s3cat,
            !.custom_factor = R(3)] :
        scope \in {"scope_2", "scope_3"}, s3cat \in {NoneE, "WASTE"} }

\* The activities a calculate_single call may be handed.
Activities ==
    Scope1Activities \cup Scope2Activities \cup Scope3Activities
        \cup Scope3OverlapActivities \cup CrossScopeActivities

\* The activities the lists handed to calculate_inventory are made of.
InventoryActivities ==
    { [ActivityRecord("scope_1", R(2), L.gallon) EXCEPT
            !.scope1_category = "stationary_combustion", !.fuel_type = L.diesel],
      [ActivityRecord("scope_2", R(2), L.MWh) EXCEPT !.grid_subregion = L.CAMX],
      [ActivityRecord("scope_2", R(2), L.kWh) EXCEPT
            !.custom_factor = <<1, 2>>, !.scope2_method = "market_based"],
      [ActivityRecord("scope_3", R(4), L.kg) EXCEPT
            !.scope3_category = "WASTE", !.custom_factor = R(3)] }

RECURSIVE ListsUpTo(_, _)
\* Every list of at most n elements of S.
ListsUpTo(S, n) ==
    IF n = 0 THEN {<<>>}
    ELSE LET shorter == ListsUpTo(S, n - 1)
         IN  shorter \cup {Append(l, x) : l \in shorter, x \in S}

ActivityLists == ListsUpTo(InventoryActivities, MaxActivities)

\* EmissionResult(scope=..., scope2_method=..., total_co2e_kg=...), every other
\* field at its default.
DirectResult(scope, method, total) ==
    EmissionResult(scope, NoneE, method, NoneE, total, <<>>, NoFactor, NoneNum, None,
                   "ar5", "")

\* The results a caller adds to an InventoryResult of its own.
DirectResults ==
    { DirectResult("scope_1", NoneE, R(1)),
      DirectResult("scope_2", "location_based", R(2)),
      DirectResult("scope_2", "market_based", R(3)),
      DirectResult("scope_2", NoneE, R(4)),
      DirectResult("scope_3", NoneE, R(5)) }

\* The strs callers pass to the registry's query calls beyond those of L and D.
Q ==
    [ ELECTRICITY |-> <<"E","L","E","C","T","R","I","C","I","T","Y">>,
      DIESEL |-> <<"D","I","E","S","E","L">>,
      us |-> <<"u","s">>,
      ROAD |-> <<"R","O","A","D">>,
      gas |-> <<"g","a","s">>,
      car_gas |-> <<"c","a","r"," ","g","a","s">> ]

\* The arguments of one search call; find_factor passes no query, no scope, no
\* tags and limit=1.
Args(query, source, category, fuel_type, region, activity_unit, tags, limit) ==
    [ query |-> query, source |-> source, category |-> category,
      fuel_type |-> fuel_type, region |-> region, scope |-> NoneE,
      activity_unit |-> activity_unit, tags |-> tags, limit |-> limit ]

NoArgs == Args(<<>>, NoneE, None, None, None, None, <<>>, 0)

\* Arguments of the registry's query calls.
QueryStrings ==
    {<<>>, L.naics11, L.waste \o <<" ">> \o L.mixed, D.t_grid, Q.gas, Q.car_gas, Q.DIESEL}
QueryCategories == {None, L.electricity, L.spend_based}
QueryIds == {D.eg1, D.df4, L.naics22}

\* Gas identifiers passed to get_gwp: table keys in lower and upper case, the
\* pseudo-gas co2e in both cases, GasType.HFC's value (a member that is a key
\* of neither table) and a refrigerant neither table lists.
GwpGases ==
    { L.co2, <<"C","O","2">>, L.ch4, <<"C","H","4">>, L.n2o, L.r410a, L.R410A,
      L.co2e, <<"C","O","2","E">>, L.hfc, L.r22 }
QueryTags ==
    { <<D.t_grid>>, <<Q.ROAD>>, <<D.t_road, D.t_freight>>, <<D.t_freight, D.t_road>>,
      <<L.waste, D.t_grid>>, <<L.spend_based, D.t_mrio>> }

\* The argument lists search is called with: a query with a category and a
\* limit; filters alone; tags alone.
SearchInputs ==
    { Args(query, NoneE, category, None, None, None, <<>>, limit) :
        query \in QueryStrings, category \in QueryCategories,
        limit \in {0, 1, 2, DefaultLimit} }
    \cup
    { Args(<<>>, source, category, fuel_type, region, activity_unit, <<>>, DefaultLimit) :
        source \in {NoneE, "egrid"},
        category \in {None, L.electricity, Q.ELECTRICITY},
        fuel_type \in {None, L.diesel, Q.DIESEL},
        region \in {None, L.US, Q.us},
        activity_unit \in {None, L.kwh} }
    \cup
    { Args(<<>>, NoneE, None, None, None, None, tags, limit) :
        tags \in QueryTags, limit \in {1, DefaultLimit} }

\* The argument lists find_factor is called with.
FindFactorInputs ==
    { Args(<<>>, source, category, fuel_type, region, activity_unit, <<>>, 1) :
        source \in {NoneE, "egrid"},
        category \in {L.electricity, L.stationary_combustion, L.spend_based},
        fuel_type \in {None, Q.DIESEL, L.naics11},
        region \in {None, Q.us},
        activity_unit \in {None, L.kwh} }

----------------------------------------------------------------------------
(* The state machine: a registry being loaded and queried, a GHGCalculator   *)
(* over it.  Calls are synchronous and single-threaded; calculate_inventory  *)
(* is split at its for loop, one iteration per step.                         *)

NoActivity == ActivityRecord("", R(0), <<>>)

\* The record of a completed call: what was called, with which activity (for
\* the calculator's calls), how it ended, and the InventoryResult returned
\* (a list of one, or empty when none was returned).
Call(op, a, outcome, returned) ==
    [op |-> op, activity |-> a, args |-> NoArgs, outcome |-> outcome,
     returned |-> returned]

\* The record of a completed search or find_factor call, with its arguments.
QueryCall(op, args, outcome) ==
    [Call(op, NoActivity, outcome, <<>>) EXCEPT !.args = args]

\* The record of a completed get_gwp call, with its arguments.
GwpCall(gas, assessment, outcome) ==
    [Call("get_gwp", NoActivity, outcome, <<>>)
        EXCEPT !.args = [gas |-> gas, assessment |-> assessment]]

NoCall == Call("none", NoActivity, Ok(<<>>), <<>>)

Init ==
    /\ _versions = <<>>
    /\ _factors = <<>>
    /\ _by_id = <<>>
    /\ gwp_assessment \in Assessments
    /\ pc = "idle"
    /\ call = NoCall
    /\ activities = <<>>
    /\ idx = 1
    /\ inventory = InventoryResult
    /\ folded = <<>>
    /\ calculated = <<>>

\* FactorRegistry.add_version(version)
add_version(version) ==
    /\ pc = "idle"
    /\ Len(_versions) < MaxVersions
    /\ _versions' = Append(_versions, version)
    /\ _factors' = _factors \o version.factors
    /\ _by_id' = IndexAll(_by_id, version.factors)
    /\ UNCHANGED <<gwp_assessment, pc, call, activities, idx, inventory, folded, calculated>>

AddVersion == \E version \in VersionPool : add_version(version)

\* GHGCalculator.calculate_single(activity), called from outside.
CalculateSingle ==
    /\ pc = "idle"
    /\ \E a \in Activities :
          call' = Call("calculate_single", a,
                       calculate_single(_factors, gwp_assessment, a), <<>>)
    /\ pc' = "returned"
    /\ UNCHANGED <<registry, gwp_assessment, activities, idx, inventory, folded, calculated>>

\* calculate_inventory, entry: inventory = InventoryResult(name=name, year=year)
CalculateInventoryBegin ==
    /\ pc = "idle"
    /\ \E acts \in ActivityLists : activities' = acts
    /\ pc' = "loop"
    /\ idx' = 1
    /\ inventory' = InventoryResult
    /\ folded' = <<>>
    /\ calculated' = <<>>
    /\ UNCHANGED <<registry, gwp_assessment, call>>

\* A faulty loop body: on an exception the inventory built so far is handed to
\* the caller.  Property C5 tells it from FoldOrRaise.
FoldOrReturnPartial(results) ==
    IF results.kind = "ok"
    THEN /\ inventory' = AddResults(inventory, results.results)
         /\ folded' = folded \o results.results
         /\ idx' = idx + 1
         /\ UNCHANGED <<pc, call>>
    ELSE /\ pc' = "returned"
         /\ call' = Call("calculate_inventory", NoActivity,
                         Raise(results.kind, results.msg), <<inventory>>)
         /\ UNCHANGED <<inventory, folded, idx>>

\* The rest of an iteration, given what calculate_single did: add_result for
\* each result, or the exception leaving calculate_inventory.
FoldOrRaise(results) ==
    IF results.kind = "ok"
    THEN /\ inventory' = AddResults(inventory, results.results)
         /\ folded' = folded \o results.results
         /\ idx' = idx + 1
         /\ UNCHANGED <<pc, call>>
    ELSE /\ pc' = "returned"
         /\ call' = Call("calculate_inventory", NoActivity,
                         Raise(results.kind, results.msg), <<>>)
         /\ UNCHANGED <<inventory, folded, idx>>

\* calculate_inventory, one iteration of `for activity in activities`:
\* `results = self.calculate_single(activity)`, then the rest.
CalculateInventoryStep ==
    /\ pc = "loop"
    /\ idx <= Len(activities)
    /\ calculated' = Append(calculated, activities[idx])
    /\ FoldOrRaise(calculate_single(_factors, gwp_assessment, activities[idx]))
    /\ UNCHANGED <<registry, gwp_assessment, activities>>

\* calculate_inventory, `return inventory` after the loop.
CalculateInventoryReturn ==
    /\ pc = "loop"
    /\ idx > Len(activities)
    /\ pc' = "returned"
    /\ call' = Call("calculate_inventory", NoActivity, Ok(<<>>), <<inventory>>)
    /\ UNCHANGED <<registry, gwp_assessment, activities, idx, inventory, folded, calculated>>

\* FactorRegistry.search(query, source=..., ..., limit=...), called from outside.
Search ==
    /\ pc = "idle"
    /\ \E q \in SearchInputs :
          call' = QueryCall("search", q,
                            Ok(search(_factors, q.query, q.source, q.category,
                                      q.fuel_type, q.region, q.scope, q.activity_unit,
                                      q.tags, q.limit)))
    /\ pc' = "returned"
    /\ UNCHANGED <<registry, gwp_assessment, activities, idx, inventory, folded, calculated>>

\* FactorRegistry.find_factor(category, fuel_type=..., ...), called from outside.
FindFactor ==
    /\ pc = "idle"
    /\ \E q \in FindFactorInputs :
          call' = QueryCall("find_factor", q,
                            Ok(<<find_factor(_factors, q.category, q.fuel_type, q.region,
                                             q.activity_unit, q.source)>>))
    /\ pc' = "returned"
    /\ UNCHANGED <<registry, gwp_assessment, activities, idx, inventory, folded, calculated>>

\* FactorRegistry.get(factor_id), called from outside.
Get ==
    /\ pc = "idle"
    /\ \E factor_id \in QueryIds :
          call' = Call("get", NoActivity, Ok(<<get(_by_id, factor_id)>>), <<>>)
    /\ pc' = "returned"
    /\ UNCHANGED <<registry, gwp_assessment, activities, idx, inventory, folded, calculated>>

\* get_gwp(gas, assessment), called from outside; the float it returns is the
\* one result of the call, a KeyError is the call's failure.
GetGwp ==
    /\ pc = "idle"
    /\ \E gas \in GwpGases, assessment \in Assessments :
          call' = GwpCall(gas, assessment,
                          IF get_gwp(gas, assessment).ok
                          THEN Ok(<<get_gwp(gas, assessment).value>>)
                          ELSE Raise(get_gwp(gas, assessment).error, "unknown_gas"))
    /\ pc' = "returned"
    /\ UNCHANGED <<registry, gwp_assessment, activities, idx, inventory, folded, calculated>>

\* FactorRegistry.load() on a data directory: a new registry, add_version for
\* each version load_all_factors returns.  When load_all_factors raises, load
\* raises and no registry comes back.
Load ==
    /\ pc = "idle"
    /\ _versions = <<>>
    /\ \E dir \in Directories :
          /\ call' = [Call("load", NoActivity, load_all_factors(dir), <<>>)
                         EXCEPT !.args = [directory |-> dir]]
          /\ IF load_all_factors(dir).kind = "ok"
             THEN /\ _versions' = load_all_factors(dir).results
                  /\ _factors' = FactorsOf(load_all_factors(dir).results)
                  /\ _by_id' = IndexVersions(<<>>, load_all_factors(dir).results)
             ELSE UNCHANGED registry
    /\ pc' = "returned"
    /\ UNCHANGED <<gwp_assessment, activities, idx, inventory, folded, calculated>>

\* The caller constructs an InventoryResult() of its own.
NewInventory ==
    /\ pc = "idle"
    /\ pc' = "inventory"
    /\ inventory' = InventoryResult
    /\ folded' = <<>>
    /\ UNCHANGED <<registry, gwp_assessment, call, activities, idx, calculated>>

\* InventoryResult.add_result(result), called from outside on that inventory.
AddResult ==
    /\ pc = "inventory"
    /\ Len(folded) < MaxResults
    /\ \E result \in DirectResults :
          /\ inventory' = add_result(inventory, result)
          /\ folded' = Append(folded, result)
    /\ UNCHANGED <<registry, gwp_assessment, pc, call, activities, idx, calculated>>

\* The caller is done with the last call's result or with its inventory (and
\* calculate_inventory's locals are gone); it may call again.
Discard ==
    /\ pc \in {"returned", "inventory"}
    /\ pc' = "idle"
    /\ call' = NoCall
    /\ activities' = <<>>
    /\ idx' = 1
    /\ inventory' = InventoryResult
    /\ folded' = <<>>
    /\ calculated' = <<>>
    /\ UNCHANGED <<registry, gwp_assessment>>

Next ==
    \/ AddVersion
    \/ Load
    \/ CalculateSingle
    \/ CalculateInventoryBegin
    \/ CalculateInventoryStep
    \/ CalculateInventoryReturn
    \/ Search
    \/ FindFactor
    \/ Get
    \/ GetGwp
    \/ NewInventory
    \/ AddResult
    \/ Discard

Spec == Init /\ [][Next]_vars

----------------------------------------------------------------------------
(* Properties of the calculator and the registry *)

\* A calculate_single call has just returned or raised; call holds its
\* activity and its outcome, the registry is the one the call ran on.
SingleReturned == pc = "returned" /\ call.op = "calculate_single"

\* A calculate_inventory call has just returned or raised.
InventoryReturned == pc = "returned" /\ call.op = "calculate_inventory"

\* C1: every calculate_single call on an activity with custom_factor f and
\* quantity q returns a result whose total_co2e_kg is q * f, whatever the
\* activity's scope, category, unit and other fields are.
C1_CustomFactorTotal ==
    (SingleReturned /\ call.activity.custom_factor # NoneNum) =>
        /\ call.outcome.kind = "ok"
        /\ \E i \in 1..Len(call.outcome.results) :
              call.outcome.results[i].total_co2e_kg
                 = RMul(call.activity.quantity, call.activity.custom_factor)

\* C2: an electricity calculation that returns results returns exactly two, one
\* location-based and one market-based, when the activity has no custom_factor,
\* and exactly one, tagged with the declared scope2_method (location-based when
\* none is declared), when it has one.
C2_ElectricityTwoResults ==
    (SingleReturned /\ call.activity.scope = "scope_2" /\ call.outcome.kind = "ok") =>
        LET a == call.activity
            results == call.outcome.results
        IN  IF a.custom_factor = NoneNum
            THEN /\ Len(results) = 2
                 /\ {results[1].scope2_method, results[2].scope2_method}
                       = {"location_based", "market_based"}
            ELSE /\ Len(results) = 1
                 /\ results[1].scope2_method
                       = IF a.scope2_method # NoneE THEN a.scope2_method
                         ELSE "location_based"

\* C3: an electricity calculation without custom_factor whose location-based
\* resolution finds no factor at any of its three steps raises; it returns no
\* result list, whatever the activity's factor_source is.
C3_NoLocationFactorRaises ==
    (/\ SingleReturned
     /\ call.activity.scope = "scope_2"
     /\ call.activity.custom_factor = NoneNum
     /\ _find_location_factor(_factors, call.activity) = NoFactor) =>
        call.outcome.kind # "ok"

\* The sum of the totals of the results a bucket holds, in the order they were
\* added.
BucketSum(bucket) ==
    RSum([i \in 1..Len(bucket.results) |-> bucket.results[i].total_co2e_kg])

\* A Scope 2 result of the market-based method.
IsMarketBased(result) ==
    result.scope = "scope_2" /\ result.scope2_method = "market_based"

\* C4: whatever results have been folded into an InventoryResult (none
\* included), its total_co2e_kg is the sum of the totals of the results in the
\* scope1, scope2_location and scope3 buckets; every market-based result is in
\* the scope2_market bucket and in none of those three; and calculate_inventory
\* on an empty list returns an inventory with all-zero totals and an empty
\* all_results, without raising.
C4_HeadlineTotal ==
    /\ total_co2e_kg(inventory)
          = RAdd(RAdd(BucketSum(inventory.scope1), BucketSum(inventory.scope2_location)),
                 BucketSum(inventory.scope3))
    /\ inventory.scope2_market.results = SelectSeq(folded, IsMarketBased)
    /\ inventory.scope2_market.total_co2e_kg = BucketSum(inventory.scope2_market)
    /\ Len(all_results(inventory)) = Len(folded)
    /\ (InventoryReturned /\ activities = <<>>) =>
          /\ call.outcome.kind = "ok"
          /\ Len(call.returned) = 1
          /\ total_co2e_kg(call.returned[1]) = R(0)
          /\ \A b \in {"scope1", "scope2_location", "scope2_market", "scope3"} :
                call.returned[1][b].total_co2e_kg = R(0)
          /\ all_results(call.returned[1]) = <<>>

\* C4 witness: calculate_inventory has returned an inventory holding a scope-1
\* result and a market-based result, both with a positive total.
C4_Witness ==
    /\ InventoryReturned
    /\ call.outcome.kind = "ok"
    /\ call.returned = <<inventory>>
    /\ RPos(inventory.scope1.total_co2e_kg)
    /\ RPos(inventory.scope2_market.total_co2e_kg)

\* C5: calculate_inventory is all-or-nothing.  When it raises, the error is the
\* one calculate_single raises for the first activity that fails, no
\* InventoryResult is returned, and the activities calculated are exactly those
\* up to and including the failing one; when it returns, calculate_single
\* succeeds for every activity of the list.
C5_AllOrNothing ==
    /\ (InventoryReturned /\ call.outcome.kind # "ok") =>
          /\ call.returned = <<>>
          /\ idx \in 1..Len(activities)
          /\ call.outcome = calculate_single(_factors, gwp_assessment, activities[idx])
          /\ \A i \in 1..(idx - 1) :
                calculate_single(_factors, gwp_assessment, activities[i]).kind = "ok"
          /\ calculated = SubSeq(activities, 1, idx)
    /\ (InventoryReturned /\ call.outcome.kind = "ok") =>
          /\ Len(call.returned) = 1
          /\ \A i \in 1..Len(activities) :
                calculate_single(_factors, gwp_assessment, activities[i]).kind = "ok"

\* C5 witness: calculate_inventory has raised at the second activity, after a
\* first one whose results were already folded into the local inventory.
C5_Witness ==
    /\ InventoryReturned
    /\ call.outcome.kind # "ok"
    /\ idx = 2
    /\ RPos(total_co2e_kg(inventory))
    /\ call.returned = <<>>

\* The outcomes of the six calculators' calculate on activity a.
CalculatorOutcomes(fs, assessment, a) ==
    { StationaryCombustionCalculator_calculate(fs, assessment, a),
      MobileCombustionCalculator_calculate(fs, assessment, a),
      FugitiveEmissionsCalculator_calculate(fs, assessment, a),
      ProcessEmissionsCalculator_calculate(fs, assessment, a),
      ElectricityCalculator_calculate(fs, assessment, a),
      Scope3Calculator_calculate(fs, assessment, a) }

\* C6: a calculator returns a non-empty list or raises, never an empty list:
\* for every calculate_single call that has returned, and for each of the six
\* calculators called directly on each activity with the registry as it is
\* between calls.
C6_NeverEmptyList ==
    /\ (SingleReturned /\ call.outcome.kind = "ok") => call.outcome.results # <<>>
    /\ pc = "idle" =>
          \A a \in Activities :
             \A outcome \in CalculatorOutcomes(_factors, gwp_assessment, a) :
                outcome.kind = "ok" => outcome.results # <<>>

\* C6 witness: an electricity calculation for which neither the location-based
\* nor the market-based lookup finds a factor has raised.
C6_Witness ==
    /\ SingleReturned
    /\ call.activity.scope = "scope_2"
    /\ call.activity.custom_factor = NoneNum
    /\ _find_location_factor(_factors, call.activity) = NoFactor
    /\ _find_market_factor(_factors, call.activity) = NoFactor
    /\ call.outcome.kind = "ValueError"
    /\ call.outcome.msg = "no_factor"

\* C7: a calculation whose path attempts a unit conversion that fails raises.
\* Stated for the Scope-3 distance-based path, whose result names the factor's
\* unit: if it has returned a result, neither the distance conversion (attempted
\* when distance_unit is set and differs from the factor's unit) nor the weight
\* conversion (attempted when a weight is multiplied in and weight_unit is set
\* and is not tonne) has failed.
C7_FailedConversionRaises ==
    (/\ SingleReturned
     /\ call.outcome.kind = "ok"
     /\ call.outcome.results[1].notes = "distance_based") =>
        LET a == call.activity
            factor_unit == call.outcome.results[1].activity_unit
        IN  /\ (Truthy(a.distance_unit) /\ Lower(a.distance_unit) # Lower(factor_unit))
                  => convert(a.distance, a.distance_unit, factor_unit).ok
            /\ (/\ RTruthy(a.weight)
                 /\ IsSubstr(L.tonne_km, Lower(factor_unit))
                 /\ Truthy(a.weight_unit)
                 /\ Lower(a.weight_unit) # L.tonne)
                  => convert(a.weight, a.weight_unit, L.metric_ton).ok

\* C8: a stationary-combustion activity without custom_factor, whose fuel has
\* exactly one stationary-combustion factor in the registry, in a unit that
\* differs from the activity's but to which the activity's unit converts, is
\* calculated: the result's total is that of the converted quantity times the
\* factor's per-gas coefficients.
C8_ConvertibleUnitCalculated ==
    (/\ SingleReturned
     /\ call.activity.scope = "scope_1"
     /\ call.activity.scope1_category = "stationary_combustion"
     /\ call.activity.custom_factor = NoneNum
     /\ Truthy(FuelKey(call.activity))) =>
        LET a == call.activity
            matching == {i \in 1..Len(_factors) :
                           /\ _factors[i].category = L.stationary_combustion
                           /\ Truthy(_factors[i].fuel_type)
                           /\ Lower(_factors[i].fuel_type) = Lower(FuelKey(a))}
        IN  \A i \in matching :
               (/\ matching = {i}
                /\ _factors[i].activity_unit # a.unit
                /\ convert(a.quantity, a.unit, _factors[i].activity_unit).ok) =>
                   /\ call.outcome.kind = "ok"
                   /\ call.outcome.results[1].total_co2e_kg
                         = _total_co2e(GasesOf(
                               convert(a.quantity, a.unit, _factors[i].activity_unit).value,
                               _factors[i], gwp_assessment))

\* The messages of the errors raised because no factor resolved.
NoFactorMessages ==
    { "no_factor", "no_refrigerant_no_factor", "process_requires_factor",
      "no_spend_factor", "no_distance_factor", "no_waste_factor", "no_scope3_factor" }

\* C9: the kind of the error a calculation raises for a failed unit conversion
\* differs from the kind of every error a calculation raises because no factor
\* resolved.
C9_DistinctErrorKinds ==
    (/\ SingleReturned
     /\ call.outcome.kind # "ok"
     /\ call.outcome.msg = "cannot_convert") =>
        \A b \in Activities :
           LET other == calculate_single(_factors, gwp_assessment, b)
           IN  (other.kind # "ok" /\ other.msg \in NoFactorMessages)
                  => other.kind # call.outcome.kind

RECURSIVE ExpectedResults(_)
\* The results calculate_single returns for each of the first k activities of
\* the list, each calculated alone on the registry as it is, one after another
\* in input order.
ExpectedResults(k) ==
    IF k = 0 THEN <<>>
    ELSE ExpectedResults(k - 1)
         \o calculate_single(_factors, gwp_assessment, activities[k]).results

\* The results among `results` that InventoryResult keeps in the named bucket.
BucketOf(results, name) ==
    SelectSeq(results,
              LAMBDA r : name = (IF r.scope = "scope_1" THEN "scope1"
                                 ELSE IF r.scope = "scope_3" THEN "scope3"
                                 ELSE IF IsMarketBased(r) THEN "scope2_market"
                                 ELSE "scope2_location"))

\* An inventory holds exactly the results `results`, in their order, bucket by
\* bucket.
HoldsInOrder(inv, results) ==
    \A name \in {"scope1", "scope2_location", "scope2_market", "scope3"} :
        inv[name].results = BucketOf(results, name)

\* C10: calculate_inventory processes activities independently and leaves the
\* registry alone.  While it runs and when it returns, what has been folded for
\* the activities done so far is exactly what calculate_single returns for each
\* of them alone, in input order, in the ghost list and in every bucket of the
\* inventory; the inventory returned is that one; and no step of a
\* calculate_single, calculate_inventory, search, find_factor or get call
\* changes the registry's factor list, id index or versions.
C10_IndependentInOrderNoSideEffect ==
    /\ [](/\ (pc = "loop" \/ InventoryReturned) =>
                /\ folded = ExpectedResults(idx - 1)
                /\ HoldsInOrder(inventory, ExpectedResults(idx - 1))
          /\ (InventoryReturned /\ call.outcome.kind = "ok") =>
                /\ idx = Len(activities) + 1
                /\ call.returned = <<inventory>>)
    /\ [][(pc' # "idle" /\ call'.op # "load") => UNCHANGED registry]_vars

\* C10 witness: calculate_inventory has returned for a list of two different
\* activities that both succeed, and two results of the two activities share
\* the market-based bucket.
C10_Witness ==
    /\ InventoryReturned
    /\ call.outcome.kind = "ok"
    /\ Len(activities) = 2
    /\ activities[1] # activities[2]
    /\ Len(inventory.scope2_market.results) = 2
    /\ inventory.scope2_market.results[1] # inventory.scope2_market.results[2]
    /\ _factors # <<>>

\* The bucket of an InventoryResult a result belongs in: the market-based one
\* for a Scope-2 result whose method is market-based and for no other.
BucketFor(result) ==
    CASE result.scope = "scope_1" -> "scope1"
      [] result.scope = "scope_3" -> "scope3"
      [] result.scope = "scope_2" /\ result.scope2_method = "market_based" -> "scope2_market"
      [] result.scope = "scope_2" /\ result.scope2_method # "market_based" -> "scope2_location"

\* C11: every add_result call on an InventoryResult appends the result to the
\* bucket it belongs in (market-based only for a Scope-2 result whose method is
\* market-based; location-based for every other Scope-2 result, one without a
\* method included; scope1 and scope3 by scope), adds the result's total to that
\* bucket's total, and leaves the other three buckets as they were.
C11_AddResultRouting ==
    [][(pc = "inventory" /\ pc' = "inventory") =>
          LET result == folded'[Len(folded')]
          IN  /\ inventory'[BucketFor(result)].results
                    = Append(inventory[BucketFor(result)].results, result)
              /\ inventory'[BucketFor(result)].total_co2e_kg
                    = RAdd(inventory[BucketFor(result)].total_co2e_kg, result.total_co2e_kg)
              /\ \A other \in {"scope1", "scope2_location", "scope2_market", "scope3"}
                                 \ {BucketFor(result)} :
                    inventory'[other] = inventory[other]]_vars

\* C11 witness: a caller's inventory to which a Scope-2 result without a method
\* and a market-based result have been added.
C11_Witness ==
    /\ pc = "inventory"
    /\ Len(folded) = 2
    /\ folded[1].scope = "scope_2" /\ folded[1].scope2_method = NoneE
    /\ IsMarketBased(folded[2])
    /\ inventory.scope2_location.results = <<folded[1]>>
    /\ inventory.scope2_market.results = <<folded[2]>>

\* The calculator the routing rules name for activity a: by scope, for Scope 1
\* by scope1_category, and without one by refrigerant_type, then by fuel_type
\* or custom_fuel; "none" when nothing tells.
RoutedTo(a) ==
    CASE a.scope = "scope_2" -> "electricity"
      [] a.scope = "scope_3" -> "scope3"
      [] a.scope = "scope_1" /\ a.scope1_category = "stationary_combustion" -> "stationary"
      [] a.scope = "scope_1" /\ a.scope1_category = "mobile_combustion" -> "mobile"
      [] a.scope = "scope_1" /\ a.scope1_category = "fugitive_emissions" -> "fugitive"
      [] a.scope = "scope_1" /\ a.scope1_category = "process_emissions" -> "process"
      [] a.scope = "scope_1" /\ a.scope1_category = NoneE
            /\ Truthy(a.refrigerant_type) -> "fugitive"
      [] a.scope = "scope_1" /\ a.scope1_category = NoneE
            /\ ~Truthy(a.refrigerant_type)
            /\ (a.fuel_type # None \/ Truthy(a.custom_fuel)) -> "stationary"
      [] OTHER -> "none"

\* What the named calculator does with activity a.
OutcomeOf(calculator, fs, assessment, a) ==
    CASE calculator = "electricity" -> ElectricityCalculator_calculate(fs, assessment, a)
      [] calculator = "scope3" -> Scope3Calculator_calculate(fs, assessment, a)
      [] calculator = "stationary" -> StationaryCombustionCalculator_calculate(fs, assessment, a)
      [] calculator = "mobile" -> MobileCombustionCalculator_calculate(fs, assessment, a)
      [] calculator = "fugitive" -> FugitiveEmissionsCalculator_calculate(fs, assessment, a)
      [] calculator = "process" -> ProcessEmissionsCalculator_calculate(fs, assessment, a)

\* C12: calculate_single hands the activity to the calculator its scope names,
\* whatever its other fields are; a Scope-1 activity goes to the calculator of
\* its scope1_category, and without one to the fugitive calculator when it has a
\* refrigerant_type (a fuel or not), else to the stationary calculator when it
\* has a fuel_type or a custom_fuel, else the call raises the error that asks
\* for scope1_category.  What the call returns or raises is what that
\* calculator returns or raises.
C12_Dispatch ==
    SingleReturned =>
        IF RoutedTo(call.activity) = "none"
        THEN call.outcome.kind = "ValueError"
             /\ call.outcome.msg = "cannot_determine_category"
        ELSE call.outcome
                = OutcomeOf(RoutedTo(call.activity), _factors, gwp_assessment, call.activity)

\* C12 witness: a Scope-1 activity without a category that has both a
\* refrigerant and a fuel has been calculated, as a fugitive emission.
C12_Witness ==
    /\ SingleReturned
    /\ call.activity.scope = "scope_1"
    /\ call.activity.scope1_category = NoneE
    /\ call.activity.refrigerant_type # None
    /\ call.activity.fuel_type # None
    /\ call.outcome.kind = "ok"
    /\ call.outcome.results[1].scope1_category = "fugitive_emissions"

\* A find_factor or search call has just returned; call.args holds its arguments.
FindFactorReturned == pc = "returned" /\ call.op = "find_factor"
SearchReturned == pc = "returned" /\ call.op = "search"

RECURSIVE LoadedFactors(_)
\* The factors of the first k loaded versions in load order: version by version
\* in the order of the add_version calls, within a version in its own order.
LoadedFactors(k) ==
    IF k = 0 THEN <<>> ELSE LoadedFactors(k - 1) \o _versions[k].factors

\* Factor f meets every criterion the arguments q of a find_factor call supply:
\* the category and the source as given, fuel_type, region and activity_unit
\* ignoring letter case; a factor without a fuel_type or region meets no
\* supplied fuel_type or region.
Satisfies(f, q) ==
    /\ f.category = q.category
    /\ q.source # NoneE => f.source = q.source
    /\ q.fuel_type # None =>
          f.fuel_type # None /\ Lower(f.fuel_type) = Lower(q.fuel_type)
    /\ q.region # None => f.region # None /\ Lower(f.region) = Lower(q.region)
    /\ q.activity_unit # None => Lower(f.activity_unit) = Lower(q.activity_unit)

\* The positions in load order of the factors that meet q's criteria.
Hits(q) ==
    {i \in 1..Len(LoadedFactors(Len(_versions))) :
        Satisfies(LoadedFactors(Len(_versions))[i], q)}

\* C13: find_factor returns the first factor in load order that meets every
\* criterion supplied, and None exactly when no loaded factor meets them all;
\* no criterion is relaxed, and a factor without a fuel_type or region never
\* meets a supplied fuel_type or region.
C13_FindFactorFirstMatch ==
    FindFactorReturned =>
        /\ call.outcome.kind = "ok"
        /\ call.outcome.results
              = << IF Hits(call.args) = {} THEN NoFactor
                   ELSE LoadedFactors(Len(_versions))
                           [CHOOSE i \in Hits(call.args) :
                               \A j \in Hits(call.args) : i <= j] >>

\* C13 witness: find_factor has returned a factor while a later factor of the
\* registry meets the criteria too.
C13_Witness ==
    /\ FindFactorReturned
    /\ call.outcome.results[1] # NoFactor
    /\ Cardinality(Hits(call.args)) >= 2

\* Factor f equals, ignoring letter case, the value of every filter the
\* arguments q of a search call supply.
EqualsEveryFilter(f, q) ==
    /\ q.source # NoneE => f.source = q.source
    /\ q.category # None => Lower(f.category) = Lower(q.category)
    /\ q.fuel_type # None =>
          f.fuel_type # None /\ Lower(f.fuel_type) = Lower(q.fuel_type)
    /\ q.region # None => f.region # None /\ Lower(f.region) = Lower(q.region)
    /\ q.activity_unit # None => Lower(f.activity_unit) = Lower(q.activity_unit)

\* C14: a search with filters alone (no query, no tags, a limit above the number
\* of factors) returns exactly the loaded factors that equal the supplied value
\* on every supplied filter, letter case ignored.
C14_FiltersIgnoreCase ==
    (/\ SearchReturned
     /\ call.args.query = <<>>
     /\ call.args.tags = <<>>
     /\ call.args.limit >= Len(_factors)) =>
        call.outcome.results
           = SelectSeq(_factors, LAMBDA f : EqualsEveryFilter(f, call.args))

\* The text a query is searched in: name, description, category, subcategory,
\* fuel_type (nothing when unset) and the tags, separated by single spaces, in
\* lower case.
SearchText(f) ==
    Lower(f.name \o <<" ">> \o f.description \o <<" ">> \o f.category \o <<" ">>
          \o f.subcategory \o <<" ">> \o (IF f.fuel_type = None THEN <<>> ELSE f.fuel_type)
          \o <<" ">> \o Join(<<" ">>, f.tags))

\* The score the scoring rules give factor f for a query: 10 for the query in
\* the text, 20 for the query in the name, 15 for the query being the fuel_type,
\* 5 for each word of the query in the text; letter case ignored.
RuleScore(f, query) ==
    (IF IsSubstr(Lower(query), SearchText(f)) THEN 10 ELSE 0)
  + (IF IsSubstr(Lower(query), Lower(f.name)) THEN 20 ELSE 0)
  + (IF f.fuel_type # None /\ Lower(query) = Lower(f.fuel_type) THEN 15 ELSE 0)
  + 5 * Cardinality({k \in 1..Len(Split(Lower(query))) :
                        IsSubstr(Split(Lower(query))[k], SearchText(f))})

\* How many candidates go before candidate i when scores[k] is the score of
\* candidate k: those of a higher score, and those of the same score that come
\* earlier.
GoBefore(scores, i) ==
    Cardinality({j \in 1..Len(scores) :
                    \/ scores[j] > scores[i]
                    \/ scores[j] = scores[i] /\ j < i})

\* The candidates fs whose score is above 0, ordered by descending score,
\* candidates of one score in the order they have in fs: the element at place k
\* is the one that exactly k - 1 others go before.
OrderByScore(fs, scores) ==
    [k \in 1..Cardinality({i \in 1..Len(fs) : scores[i] > 0}) |->
        fs[CHOOSE i \in 1..Len(fs) : scores[i] > 0 /\ GoBefore(scores, i) = k - 1]]

\* The candidates fs ranked for a query by the scoring rules.
RankedByRule(fs, query) ==
    CHOOSE ranked \in {OrderByScore(candidates, scores) :
                          candidates \in {fs},
                          scores \in {[i \in 1..Len(fs) |-> RuleScore(fs[i], query)]}} : TRUE

\* C15: a search with a non-empty query (and at most a category filter) returns,
\* up to its limit, the candidates that score above 0 under the scoring rules,
\* best score first and candidates of equal score in load order.
C15_QueryScoring ==
    (SearchReturned /\ call.args.query # <<>>) =>
        \A ranked \in
              {RankedByRule(SelectSeq(_factors,
                                      LAMBDA f : call.args.category # None
                                                    => f.category = call.args.category),
                            call.args.query)} :
            call.outcome.results
               = SubSeq(ranked, 1, IF call.args.limit < Len(ranked)
                                   THEN call.args.limit ELSE Len(ranked))

\* C15 witness: a search with a query has returned two factors in another order
\* than they were loaded in.
C15_Witness ==
    /\ SearchReturned
    /\ call.args.query # <<>>
    /\ Len(call.outcome.results) = 2
    /\ \E i, j \in 1..Len(_factors) :
          /\ i < j
          /\ call.outcome.results = <<_factors[j], _factors[i]>>
          /\ RuleScore(_factors[j], call.args.query) > RuleScore(_factors[i], call.args.query)

\* A search with a query has returned two factors of one score, in load order.
C15_TieWitness ==
    /\ SearchReturned
    /\ call.args.query # <<>>
    /\ Len(call.outcome.results) = 2
    /\ call.outcome.results[1] # call.outcome.results[2]
    /\ RuleScore(call.outcome.results[1], call.args.query)
          = RuleScore(call.outcome.results[2], call.args.query)

\* A search call with tags at most: no query and no other filter.
TagsOnly(q) ==
    /\ q.query = <<>>
    /\ q.source = NoneE /\ q.category = None /\ q.fuel_type = None
    /\ q.region = None /\ q.scope = NoneE /\ q.activity_unit = None

\* The tag set of factor f is a superset of the tags T, letter case ignored.
HasAllTags(f, T) ==
    {Lower(T[i]) : i \in 1..Len(T)} \subseteq {Lower(f.tags[j]) : j \in 1..Len(f.tags)}

\* C16 as claimed: search(tags=T), the limit left at its default, returns
\* exactly the set of loaded factors whose tag set is a superset of T.
C16_TagsExactSet ==
    (SearchReturned /\ TagsOnly(call.args) /\ call.args.limit = DefaultLimit) =>
        {call.outcome.results[i] : i \in 1..Len(call.outcome.results)}
           = {_factors[i] : i \in {j \in 1..Len(_factors) :
                                      HasAllTags(_factors[j], call.args.tags)}}

\* C16 amended: search(tags=T, limit=n) returns, in load order, the first n of
\* the loaded factors whose tag set is a superset of T, and all of them when
\* they are at most n.
C16_TagsSupersetUpToLimit ==
    (SearchReturned /\ TagsOnly(call.args)) =>
        \A matching \in {SelectSeq(_factors, LAMBDA f : HasAllTags(f, call.args.tags))} :
            call.outcome.results
               = SubSeq(matching, 1, IF call.args.limit < Len(matching)
                                     THEN call.args.limit ELSE Len(matching))

\* C16 witness: a search for two tags has returned some of the loaded factors
\* and left out others.
C16_Witness ==
    /\ SearchReturned
    /\ TagsOnly(call.args)
    /\ Len(call.args.tags) = 2
    /\ call.outcome.results # <<>>
    /\ \E i \in 1..Len(_factors) : ~HasAllTags(_factors[i], call.args.tags)

\* Sequence s is a prefix of sequence t.
IsPrefix(s, t) == Len(s) <= Len(t) /\ SubSeq(t, 1, Len(s)) = s

\* The full ordered match list of a search call: what the same call returns
\* when its limit is the number of loaded factors.
FullMatchList(q) ==
    search(_factors, q.query, q.source, q.category, q.fuel_type, q.region, q.scope,
           q.activity_unit, q.tags, Len(_factors))

\* C17: a search without filters, tags or query returns the first min(limit, N)
\* of the N loaded factors in load order (version by version as added, each in
\* its own order); every search returns at most limit factors, a prefix of its
\* full ordered match list.  The limit is 50 when the caller gives none.
C17_LimitPrefix ==
    SearchReturned =>
        /\ Len(call.outcome.results) <= call.args.limit
        /\ IsPrefix(call.outcome.results, FullMatchList(call.args))
        /\ Len(call.outcome.results) < call.args.limit =>
              call.outcome.results = FullMatchList(call.args)
        /\ (TagsOnly(call.args) /\ call.args.tags = <<>>) =>
              \A loaded \in {LoadedFactors(Len(_versions))} :
                  call.outcome.results
                     = SubSeq(loaded, 1, IF call.args.limit < Len(loaded)
                                         THEN call.args.limit ELSE Len(loaded))

\* C17 witness: a search without filters, tags or query and with the default
\* limit has returned 50 factors of a registry that holds more.
C17_Witness ==
    /\ SearchReturned
    /\ TagsOnly(call.args) /\ call.args.tags = <<>>
    /\ call.args.limit = DefaultLimit
    /\ Len(call.outcome.results) = DefaultLimit
    /\ Len(_factors) > DefaultLimit

\* A get_gwp call has just returned or raised.
GetGwpReturned == pc = "returned" /\ call.op = "get_gwp"

\* C18: get_gwp lower-cases the identifier and returns the selected
\* assessment's table value for it; for co2e, which is a key of neither table,
\* it returns 1 under both assessments; for every other identifier that is
\* not a key of the selected table it fails with the unknown-gas KeyError.
C18_GetGwp ==
    GetGwpReturned =>
        \A key \in {Lower(call.args.gas)} :
            /\ L.co2e \notin GWPKeys
            /\ key = L.co2e => call.outcome = Ok(<<R(1)>>)
            /\ key \in GWPKeys =>
                  call.outcome = Ok(<<_GWP_TABLES(call.args.assessment, key)>>)
            /\ (key # L.co2e /\ key \notin GWPKeys) =>
                  /\ call.outcome.kind = "KeyError"
                  /\ call.outcome.msg = "unknown_gas"
                  /\ call.outcome.results = <<>>

\* get_gwp("CH4", AR6) returned the AR6 value of ch4, which differs from AR5's.
C18_Witness ==
    /\ GetGwpReturned
    /\ call.args.gas = <<"C","H","4">>
    /\ call.args.assessment = "ar6"
    /\ call.outcome = Ok(<<AR6_GWP(L.ch4)>>)
    /\ AR6_GWP(L.ch4) # AR5_GWP(L.ch4)

\* The criteria of the market-based lookup by declared source: electricity per
\* kWh from the activity's factor_source, in its grid_subregion or else its
\* country when it names one.
DeclaredSourceCriteria(a) ==
    [ category |-> L.electricity, source |-> a.factor_source, fuel_type |-> None,
      region |-> Or(a.grid_subregion, a.country), activity_unit |-> L.kWh ]

\* The market-based lookup of activity a has nothing of its own to use: no
\* factor_source is declared, or no loaded factor meets the declared source's
\* criteria.
MarketReusesLocation(a) ==
    \/ a.factor_source = NoneE
    \/ Hits(DeclaredSourceCriteria(a)) = {}

\* C19: an electricity calculation without custom_factor whose activity
\* declares no factor_source, or declares one for which no factor is found,
\* returns two results, the location-based one and then the market-based one,
\* that carry the same factor_id and the same total_co2e_kg; they are two
\* results, never one.
C19_MarketReusesLocationFactor ==
    (/\ SingleReturned
     /\ call.activity.scope = "scope_2"
     /\ call.activity.custom_factor = NoneNum
     /\ call.outcome.kind = "ok"
     /\ MarketReusesLocation(call.activity)) =>
        /\ Len(call.outcome.results) = 2
        /\ call.outcome.results[1].scope2_method = "location_based"
        /\ call.outcome.results[2].scope2_method = "market_based"
        /\ call.outcome.results[1].factor_id # None
        /\ call.outcome.results[2].factor_id = call.outcome.results[1].factor_id
        /\ call.outcome.results[2].total_co2e_kg = call.outcome.results[1].total_co2e_kg

\* C19 witness: the activity declares factor_source defra and grid_subregion
\* CAMX, the registry has no such factor, and both results carry the CAMX
\* factor of eGRID.
C19_Witness ==
    /\ SingleReturned
    /\ call.activity.scope = "scope_2"
    /\ call.activity.custom_factor = NoneNum
    /\ call.activity.factor_source = "defra"
    /\ Hits(DeclaredSourceCriteria(call.activity)) = {}
    /\ call.outcome.kind = "ok"
    /\ Len(call.outcome.results) = 2
    /\ call.outcome.results[1].factor_id = D.eg1
    /\ call.outcome.results[2].factor_id = D.eg1

\* A calculate_single call on a Scope-3 activity that takes the spend-based path
\* with a NAICS code has just returned or raised.
SpendReturned ==
    /\ SingleReturned
    /\ call.activity.scope = "scope_3"
    /\ call.activity.custom_factor = NoneNum
    /\ call.activity.scope3_category # NoneE
    /\ call.activity.spend_amount # NoneNum
    /\ Truthy(call.activity.naics_code)

\* The loaded factors of one source, in load order.
OfSource(source) == SelectSeq(_factors, LAMBDA f : f.source = source)

\* The first of a list of factors, NoFactor for the empty list.
FirstOf(fs) == IF fs = <<>> THEN NoFactor ELSE fs[1]

\* The factor the chain gives for a NAICS code: the first USEEIO factor of
\* category spend_based whose fuel_type is the code; else the best-ranked
\* USEEIO factor for the code as free text; else the best-ranked EXIOBASE
\* factor for it; else none.
ChainFactor(naics_code) ==
    CHOOSE found \in
        { IF exact # <<>> THEN exact[1]
          ELSE IF useeio # NoFactor THEN useeio
          ELSE exiobase :
            exact \in {SelectSeq(OfSource("useeio"),
                                 LAMBDA f : /\ f.category = L.spend_based
                                            /\ f.fuel_type # None
                                            /\ Lower(f.fuel_type) = Lower(naics_code))},
            useeio \in {FirstOf(RankedByRule(OfSource("useeio"), naics_code))},
            exiobase \in {FirstOf(RankedByRule(OfSource("exiobase"), naics_code))} } : TRUE

C20_Co2Witness ==
    /\ SpendReturned
    /\ call.outcome.kind = "ok"
    /\ call.outcome.results[1].factor_id = D.us2
    /\ call.outcome.results[1].total_co2e_kg = R(75)

\* A FactorRegistry.load() call has just returned or raised.
LoadReturned == pc = "returned" /\ call.op = "load"

\* The paths of the directory whose documents parse and validate.
WellFormedPaths(dir) == {p \in DOMAIN dir : dir[p].shape = "object"}

\* The registry holds exactly the well-formed documents of the directory in
\* ascending path order, and its factor list is their factors concatenated.
HoldsWellFormed(dir) ==
    /\ Len(_versions) = Cardinality(WellFormedPaths(dir))
    /\ \A i \in 1..Len(_versions) :
          \E p \in WellFormedPaths(dir) :
             /\ Cardinality({q \in WellFormedPaths(dir) : q < p}) = i - 1
             /\ _versions[i] = dir[p].version
    /\ _factors = LoadedFactors(Len(_versions))

\* C21: loading skips every document that fails to parse or validate, no error
\* reaching the caller, and goes on with the rest: the loaded versions are
\* exactly the well-formed documents in sorted path order and the factor list
\* is the concatenation of their factors.
C21_LoadSkipsBadDocuments ==
    LoadReturned =>
        /\ call.outcome.kind = "ok"
        /\ HoldsWellFormed(call.args.directory)

\* Loading a directory whose malformed documents all fail with an exception
\* load_all_factors catches does as C21 says.
C21_CaughtDocumentsSkipped ==
    (/\ LoadReturned
     /\ \A p \in DOMAIN call.args.directory :
           call.args.directory[p].shape \in
              {"object", "not_json", "missing_key", "unknown_source"}) =>
        /\ call.outcome.kind = "ok"
        /\ HoldsWellFormed(call.args.directory)

\* A load has skipped a malformed document and kept the well-formed one after it.
C21_SkipWitness ==
    /\ LoadReturned
    /\ call.outcome.kind = "ok"
    /\ DOMAIN call.args.directory = {1, 2}
    /\ call.args.directory[1].shape = "not_json"
    /\ _versions = <<call.args.directory[2].version>>

\* The criteria of one step of the location-based resolution: electricity per
\* kWh in a region, from one source or (NoneE) from any.
LocationCriteria(region, source) ==
    [ category |-> L.electricity, source |-> source, fuel_type |-> None,
      region |-> region, activity_unit |-> L.kWh ]

\* The first factor of the registry that meets criteria q, NoFactor when none
\* does.
FirstMeeting(q) ==
    IF \E i \in 1..Len(_factors) : Satisfies(_factors[i], q)
    THEN _factors[CHOOSE i \in 1..Len(_factors) :
                     /\ Satisfies(_factors[i], q)
                     /\ \A j \in 1..(i - 1) : ~Satisfies(_factors[j], q)]
    ELSE NoFactor

\* What the three steps find for activity a, a step whose discriminator is
\* unset finding nothing.
StepsFind(a) ==
    << IF Truthy(a.grid_subregion)
       THEN FirstMeeting(LocationCriteria(a.grid_subregion, "egrid")) ELSE NoFactor,
       IF Truthy(a.country)
       THEN FirstMeeting(LocationCriteria(a.country, "ember")) ELSE NoFactor,
       FirstMeeting(LocationCriteria(L.US, NoneE)) >>

\* The find of the first step that found a factor, NoFactor when none did.
FirstFound(finds) ==
    IF \E k \in 1..Len(finds) : finds[k] # NoFactor
    THEN finds[CHOOSE k \in 1..Len(finds) :
                  finds[k] # NoFactor /\ \A j \in 1..(k - 1) : finds[j] = NoFactor]
    ELSE NoFactor

\* An electricity calculation without custom_factor has got past the
\* conversion to kWh and has returned or raised.
LocationResolved ==
    /\ SingleReturned
    /\ call.activity.scope = "scope_2"
    /\ call.activity.custom_factor = NoneNum
    /\ call.outcome.msg # "cannot_convert"

Scope3Returned == SingleReturned /\ call.activity.scope = "scope_3"

\* The branch of Scope3Calculator.calculate an outcome comes from, told by the
\* note of its result or by its error message.
BranchOf(outcome) ==
    IF outcome.kind = "ok"
    THEN CASE outcome.results[1].notes = "custom" -> "custom"
           [] outcome.results[1].notes = "spend_based" -> "spend"
           [] outcome.results[1].notes = "distance_based" -> "distance"
           [] outcome.results[1].notes = "waste" -> "waste"
           [] OTHER -> "activity"
    ELSE CASE outcome.msg = "scope3_category_required" -> "error"
           [] outcome.msg = "no_spend_factor" -> "spend"
           [] outcome.msg = "no_distance_factor" -> "distance"
           [] outcome.msg = "no_waste_factor" -> "waste"
           [] outcome.msg = "no_scope3_factor" -> "activity"
           [] OTHER -> "other"

\* The first matching branch in the order custom, (error without category),
\* spend-based, distance-based, waste, activity-based.
FirstMatchingBranch(a) ==
    CASE a.custom_factor # NoneNum -> "custom"
      [] a.custom_factor = NoneNum /\ a.scope3_category = NoneE -> "error"
      [] OTHER ->
            IF a.spend_amount # NoneNum THEN "spend"
            ELSE IF a.distance # NoneNum
                    /\ a.scope3_category \in {"UPSTREAM_TRANSPORT", "DOWNSTREAM_TRANSPORT",
                                              "BUSINESS_TRAVEL", "EMPLOYEE_COMMUTING"}
            THEN "distance"
            ELSE IF a.scope3_category = "WASTE" THEN "waste"
            ELSE "activity"

\* C23: Scope3Calculator.calculate takes the first matching branch in the order
\* custom, spend-based, distance-based (distance present and a transport, travel
\* or commuting category), waste, activity-based; without custom_factor and
\* without scope3_category it fails before any other branch, and with a
\* custom_factor it succeeds even without a category.
C23_Scope3BranchOrder ==
    Scope3Returned =>
        /\ BranchOf(call.outcome) = FirstMatchingBranch(call.activity)
        /\ call.activity.custom_factor # NoneNum => call.outcome.kind = "ok"
        /\ (call.activity.custom_factor = NoneNum
               /\ call.activity.scope3_category = NoneE) => call.outcome.kind = "ValueError"

\* C23 witness: an activity with spend_amount, distance and a travel category
\* has gone down the spend-based branch.
C23_Witness ==
    /\ Scope3Returned
    /\ call.activity.custom_factor = NoneNum
    /\ call.activity.spend_amount # NoneNum
    /\ call.activity.distance # NoneNum
    /\ call.activity.scope3_category = "BUSINESS_TRAVEL"
    /\ call.outcome.kind = "ok"
    /\ call.outcome.results[1].notes = "spend_based"

\* A custom_factor activity without scope3_category has been calculated.
C23_CustomWitness ==
    /\ Scope3Returned
    /\ call.activity.custom_factor # NoneNum
    /\ call.activity.scope3_category = NoneE
    /\ call.activity.spend_amount # NoneNum
    /\ call.outcome.kind = "ok"
    /\ call.outcome.results[1].notes = "custom"

\* A calculate_single call on a fugitive activity without custom_factor has
\* just returned or raised.
FugitiveReturned ==
    /\ SingleReturned
    /\ RoutedTo(call.activity) = "fugitive"
    /\ call.activity.custom_factor = NoneNum

\* The multiplier for a refrigerant: its GWP in the assessment's table under
\* the lower-cased identifier; for an identifier the table lacks, the
\* co2e_factor of the best-ranked free-text hit among the factors of category
\* fugitive_emissions; NoneNum when there is no hit or it has no co2e_factor.
RefrigerantMultiplier(refrigerant, assessment) ==
    IF Lower(refrigerant) \in GWPKeys
    THEN _GWP_TABLES(assessment, Lower(refrigerant))
    ELSE FirstOf(RankedByRule(SelectSeq(_factors,
                                        LAMBDA f : f.category = L.fugitive_emissions),
                              refrigerant)).co2e_factor

\* C24: for a fugitive activity with a refrigerant_type and no custom_factor the
\* total is the quantity in kg times the refrigerant's GWP, or times the
\* co2e_factor of the top free-text hit of category fugitive_emissions when the
\* table lacks the identifier; the call fails when that hit is missing or has no
\* co2e_factor; a result has exactly one gas-breakdown entry, tagged hfc.
C24_RefrigerantTotal ==
    (FugitiveReturned /\ Truthy(call.activity.refrigerant_type)) =>
        \A kg \in {convert(call.activity.quantity, call.activity.unit, L.kg)} :
        \A gwp \in {RefrigerantMultiplier(call.activity.refrigerant_type, gwp_assessment)} :
            IF ~kg.ok \/ gwp = NoneNum
            THEN call.outcome.kind = "ValueError"
            ELSE /\ call.outcome.kind = "ok"
                 /\ Len(call.outcome.results) = 1
                 /\ call.outcome.results[1].total_co2e_kg = RMul(kg.value, gwp)
                 /\ Len(call.outcome.results[1].gas_breakdown) = 1
                 /\ call.outcome.results[1].gas_breakdown[1].gas = L.hfc

\* C24 witness: a refrigerant the GWP table lacks has been calculated with the
\* co2e_factor of a registry factor, from a quantity given in tonnes.
C24_Witness ==
    /\ FugitiveReturned
    /\ Truthy(call.activity.refrigerant_type)
    /\ Lower(call.activity.refrigerant_type) \notin GWPKeys
    /\ call.activity.unit = L.tonne
    /\ call.outcome.kind = "ok"
    /\ call.outcome.results[1].total_co2e_kg = RMul(R(2000), R(1810))

\* A refrigerant the table lacks has failed on a hit without co2e_factor.
C24_NoCo2eWitness ==
    /\ FugitiveReturned
    /\ Truthy(call.activity.refrigerant_type)
    /\ call.activity.unit = L.kg
    /\ \E i \in 1..Len(_factors) : _factors[i].id = D.cu3
    /\ call.outcome.msg = "unknown_refrigerant"

\* The positions of the loaded factors of category fugitive_emissions that
\* match activity a's unit (letter case ignored) and its factor_source (when it
\* declares one).
FugitiveMatches(a) ==
    {i \in 1..Len(_factors) :
        /\ _factors[i].category = L.fugitive_emissions
        /\ Lower(_factors[i].activity_unit) = Lower(a.unit)
        /\ a.factor_source # NoneE => _factors[i].source = a.factor_source}

\* C25: for a fugitive activity without refrigerant_type and custom_factor, if
\* the registry holds a factor of category fugitive_emissions that matches the
\* activity's unit and factor_source and carries a co2e_factor, the calculation
\* succeeds with the quantity in kg times that co2e_factor; it fails only when
\* the registry holds no such factor.
C25_FugitiveByFactor ==
    (FugitiveReturned /\ call.activity.refrigerant_type = None) =>
        IF \E i \in FugitiveMatches(call.activity) : _factors[i].co2e_factor # NoneNum
        THEN /\ call.outcome.kind = "ok"
             /\ \E i \in FugitiveMatches(call.activity) :
                   /\ _factors[i].co2e_factor # NoneNum
                   /\ call.outcome.results[1].total_co2e_kg
                         = RMul(convert(call.activity.quantity, call.activity.unit, L.kg).value,
                                _factors[i].co2e_factor)
        ELSE call.outcome.kind # "ok"

\* What the calculation does: the first matching factor in load order decides.
\* With a co2e_factor it gives the total, without one the call fails, whatever
\* the later matching factors carry.
C25_FirstMatchDecides ==
    (FugitiveReturned /\ call.activity.refrigerant_type = None) =>
        IF FugitiveMatches(call.activity) # {}
        THEN \A first \in {_factors[CHOOSE i \in FugitiveMatches(call.activity) :
                                        \A j \in FugitiveMatches(call.activity) : i <= j]} :
                IF first.co2e_factor # NoneNum
                THEN /\ call.outcome.kind = "ok"
                     /\ call.outcome.results[1].factor_id = first.id
                     /\ call.outcome.results[1].total_co2e_kg
                           = RMul(convert(call.activity.quantity, call.activity.unit,
                                          L.kg).value,
                                  first.co2e_factor)
                ELSE call.outcome.msg = "no_refrigerant_no_factor"
        ELSE call.outcome.msg = "no_refrigerant_no_factor"

\* A fugitive activity without refrigerant_type has been calculated from a
\* registry factor.
C25_FactorWitness ==
    /\ FugitiveReturned
    /\ call.activity.refrigerant_type = None
    /\ call.outcome.kind = "ok"
    /\ call.outcome.results[1].factor_id = D.ep4

\* A calculate_single call on a mobile-combustion activity without
\* custom_factor has just returned or raised.
MobileReturned ==
    /\ SingleReturned
    /\ RoutedTo(call.activity) = "mobile"
    /\ call.activity.custom_factor = NoneNum

\* The vehicle_type values an activity is compared under: unset and two hints.
VehicleTypes == {None, L.car, <<"v","a","n">>}

\* Two outcomes resolve the same factor and give the same total, or both fail.
SameResolution(one, other) ==
    IF one.kind = "ok"
    THEN /\ other.kind = "ok"
         /\ other.results[1].factor_id = one.results[1].factor_id
         /\ other.results[1].total_co2e_kg = one.results[1].total_co2e_kg
    ELSE other.kind # "ok"

\* C26: vehicle_type has no effect on mobile-combustion resolution: on one
\* registry, an activity without custom_factor and the same activity under any
\* other vehicle_type (unset or set) resolve the same factor and give the same
\* total, or both fail.
C26_VehicleTypeNoEffect ==
    MobileReturned =>
        \A vehicle \in VehicleTypes :
            SameResolution(call.outcome,
                           calculate_single(_factors, gwp_assessment,
                                            [call.activity EXCEPT
                                                !.vehicle_type = vehicle]))

\* With a fuel_type or custom_fuel the vehicle_type changes nothing.
C26_NoEffectWithFuel ==
    (MobileReturned /\ Truthy(FuelKey(call.activity))) =>
        \A vehicle \in VehicleTypes :
            SameResolution(call.outcome,
                           calculate_single(_factors, gwp_assessment,
                                            [call.activity EXCEPT
                                                !.vehicle_type = vehicle]))

\* A mobile activity with a fuel and a vehicle_type has been calculated.
C26_FuelWitness ==
    /\ MobileReturned
    /\ Truthy(FuelKey(call.activity))
    /\ Truthy(call.activity.vehicle_type)
    /\ call.outcome.kind = "ok"

\* A calculate_single call on a stationary or mobile activity without
\* custom_factor has returned a result, which names the factor it resolved.
CombustionCalculated ==
    /\ SingleReturned
    /\ RoutedTo(call.activity) \in {"stationary", "mobile"}
    /\ call.activity.custom_factor = NoneNum
    /\ call.outcome.kind = "ok"

\* The gases of a combustion factor with their coefficients, in the order CO2,
\* CH4, N2O.
GasCoefficients(f) ==
    << <<L.co2, f.co2_factor>>, <<L.ch4, f.ch4_factor>>, <<L.n2o, f.n2o_factor>> >>

\* The breakdown entry of a gas for a quantity: its mass quantity * coefficient,
\* the table GWP of the gas and their product.
EntryFor(gc, quantity, assessment) ==
    [ gas |-> gc[1], mass_kg |-> RMul(quantity, gc[2]),
      co2e_kg |-> RMul(RMul(quantity, gc[2]), _GWP_TABLES(assessment, gc[1])),
      gwp_used |-> _GWP_TABLES(assessment, gc[1]), gwp_assessment |-> assessment ]

\* The entries of all three gases of factor f for a quantity.
AllEntries(f, quantity, assessment) ==
    [k \in 1..3 |-> EntryFor(GasCoefficients(f)[k], quantity, assessment)]

\* C27: for a stationary or mobile activity with a resolved factor the total is
\* the sum over CO2, CH4 and N2O of quantity * coefficient * GWP(gas,
\* assessment), and the breakdown holds, in the order CO2, CH4, N2O, one entry
\* for each gas of positive mass and none for a gas of zero mass, each with
\* co2e_kg = mass_kg * gwp_used and gwp_used the GWP of the gas.
C27_PerGasTotal ==
    CombustionCalculated =>
        \A f \in {_factors[i] : i \in {j \in 1..Len(_factors) :
                        _factors[j].id = call.outcome.results[1].factor_id}} :
        \A entries \in {AllEntries(f, call.activity.quantity, gwp_assessment)} :
            /\ call.outcome.results[1].total_co2e_kg
                  = RAdd(entries[1].co2e_kg, RAdd(entries[2].co2e_kg, entries[3].co2e_kg))
            /\ call.outcome.results[1].gas_breakdown
                  = SelectSeq(entries, LAMBDA e : e.mass_kg[1] > 0)
            /\ \A k \in 1..Len(call.outcome.results[1].gas_breakdown) :
                  call.outcome.results[1].gas_breakdown[k].co2e_kg
                     = RMul(call.outcome.results[1].gas_breakdown[k].mass_kg,
                            call.outcome.results[1].gas_breakdown[k].gwp_used)

\* C27 witness: under AR6 a factor with CO2 and CH4 and no N2O has given a
\* breakdown of exactly those two gases.
C27_Witness ==
    /\ CombustionCalculated
    /\ gwp_assessment = "ar6"
    /\ \E i \in 1..Len(_factors) :
          /\ _factors[i].id = call.outcome.results[1].factor_id
          /\ _factors[i].n2o_factor = R(0)
          /\ _factors[i].ch4_factor # R(0)
    /\ Len(call.outcome.results[1].gas_breakdown) = 2
    /\ call.outcome.results[1].gas_breakdown[2].gas = L.ch4
    /\ call.outcome.results[1].gas_breakdown[2].gwp_used = <<279, 10>>

\* The ids the loaded factors carry.
LoadedIds == {_factors[i].id : i \in 1..Len(_factors)}

\* C28: after any sequence of add_version calls the factor list and
\* factor_count keep every added factor, earlier ones of a repeated id
\* included, and get(id) returns the most recently added factor carrying the id
\* (None for an id no factor carries).
C28_GetReturnsLatest ==
    /\ _factors = LoadedFactors(Len(_versions))
    /\ factor_count = Len(LoadedFactors(Len(_versions)))
    /\ DOMAIN _by_id = LoadedIds
    /\ \A id \in LoadedIds \cup QueryIds :
          get(_by_id, id)
             = IF id \in LoadedIds
               THEN _factors[CHOOSE i \in 1..Len(_factors) :
                                /\ _factors[i].id = id
                                /\ \A j \in (i + 1)..Len(_factors) : _factors[j].id # id]
               ELSE NoFactor

\* C28 witness: factor_count exceeds the number of distinct ids, and
\* find_factor has returned a factor f for which get(f.id) is another record.
C28_Witness ==
    /\ FindFactorReturned
    /\ factor_count > Cardinality(LoadedIds)
    /\ call.outcome.results[1] # NoFactor
    /\ get(_by_id, call.outcome.results[1].id) # call.outcome.results[1]
    /\ get(_by_id, call.outcome.results[1].id) = _factors[Len(_factors)]

\* calculate has returned for a Scope-3 activity on the spend-based path that
\* carries no NAICS code.
SpendNoNaicsReturned ==
    /\ SingleReturned
    /\ call.activity.scope = "scope_3"
    /\ call.activity.custom_factor = NoneNum
    /\ call.activity.scope3_category # NoneE
    /\ call.activity.spend_amount # NoneNum
    /\ ~Truthy(call.activity.naics_code)

\* C29: a spend-based activity without a NAICS code never consults USEEIO:
\* when the registry holds an EXIOBASE factor the calculation succeeds with the
\* first EXIOBASE factor in load order, and it fails exactly when the registry
\* holds no EXIOBASE factor, whatever USEEIO factors are loaded.
C29_NoNaicsFirstExiobase ==
    SpendNoNaicsReturned =>
        \A exiobase \in {OfSource("exiobase")} :
            IF exiobase = <<>>
            THEN call.outcome.kind = "ValueError" /\ call.outcome.msg = "no_spend_factor"
            ELSE /\ call.outcome.kind = "ok"
                 /\ Len(call.outcome.results) = 1
                 /\ call.outcome.results[1].factor_id = exiobase[1].id
                 /\ call.outcome.results[1].total_co2e_kg
                       = RMul(call.activity.spend_amount,
                              IF exiobase[1].co2e_factor # NoneNum
                              THEN exiobase[1].co2e_factor
                              ELSE exiobase[1].co2_factor)

\* C29 witness: several EXIOBASE factors are loaded and the result of the
\* activity without a NAICS code carries the first of them.
C29_Witness ==
    /\ SpendNoNaicsReturned
    /\ Len(OfSource("exiobase")) > 1
    /\ call.outcome.kind = "ok"
    /\ call.outcome.results[1].factor_id = D.ex1
    /\ call.outcome.results[1].total_co2e_kg = R(30)

\* C29 witness of the failure: USEEIO factors are loaded, no EXIOBASE factor
\* is, and the activity without a NAICS code fails.
C29_UseeioWitness ==
    /\ SpendNoNaicsReturned
    /\ OfSource("useeio") # <<>>
    /\ OfSource("exiobase") = <<>>
    /\ call.outcome.kind = "ValueError"

\* The names of the four buckets of an InventoryResult.
Buckets == {"scope1", "scope2_location", "scope2_market", "scope3"}

RECURSIVE RetainedBy(_, _, _)
\* Of the first k folded results, those the assignment gives to the named
\* bucket, in fold order.
RetainedBy(assign, name, k) ==
    IF k = 0 THEN <<>>
    ELSE RetainedBy(assign, name, k - 1)
         \o (IF assign[k] = name THEN <<folded[k]>> ELSE <<>>)

\* The total_co2e_kg values of a list of results.
TotalsOf(results) == [i \in 1..Len(results) |-> results[i].total_co2e_kg]

\* C30: after any sequence of add_result calls on an InventoryResult each
\* bucket's total_co2e_kg is the sum of total_co2e_kg over the results it
\* holds, every folded result is held by exactly one of the four buckets,
\* within a bucket the results keep their fold order, and len(all_results) is
\* the number of add_result calls.
C30_BucketsAccountForEveryResult ==
    (pc \in {"inventory", "loop"}) =>
        /\ \A name \in Buckets :
              inventory[name].total_co2e_kg = RSum(TotalsOf(inventory[name].results))
        /\ \E assign \in [1..Len(folded) -> Buckets] :
              \A name \in Buckets :
                 inventory[name].results = RetainedBy(assign, name, Len(folded))
        /\ Len(all_results(inventory)) = Len(folded)

\* C30 witness: two different results have been added to a caller's inventory
\* and share a bucket, whose total is the sum of the two.
C30_Witness ==
    /\ pc = "inventory"
    /\ Len(folded) = 2
    /\ folded[1] # folded[2]
    /\ inventory.scope2_location.results = folded
    /\ inventory.scope2_location.total_co2e_kg = R(6)
    /\ Len(all_results(inventory)) = 2

====
